---- MODULE Spec2Model ----
(***************************************************************************)
(* Model of the stream-check engine of hls_exporter                        *)
(* (internal/checker/checker.go, validator.go, segment_validator.go).      *)
(* One Check invocation: master playlist -> variant goroutines -> segment  *)
(* goroutines -> buffered result channel -> aggregation -> metrics.        *)
(***************************************************************************)
EXTENDS Integers, Sequences, FiniteSets, Bags, TLC

(***************************************************************************)
(* Bounds of the model                                                     *)
(***************************************************************************)
\* largest number of goroutines (one per variant, one per selected segment)
\* that checkVariants starts in one check; the segment goroutines of a
\* check of a single byte-range variant are not limited by it
MaxGoroutines == 4
\* size of the worker pool the checker is constructed with (c.workers)
Workers == 2
\* number of Start and Stop calls made on one checker
MaxCalls == 4
\* number of ticks of the worker tickers that are told apart
MaxTicks == 1
\* largest length of the segment slice of the playlists, and of the variant
\* list of the master playlists, handed to selectSegments and to the
\* validator on their own
MaxSlots == 4
\* largest sequence number of the segments handed to ValidateMedia on its own
MaxSeqId == 2
\* largest number of directory segments before the file name in the URIs
\* handed to resolveURL on its own
MaxRefDirs == 2
\* largest number of streams in a configuration file
MaxStreams == 2
\* largest number of Check calls one polling loop makes
MaxChecks == 2

(***************************************************************************)
(* Program constants                                                       *)
(***************************************************************************)
\* checker.go:174  make(chan models.SegmentCheck, len(master.Variants)*10)
ResultChPerVariant == 10
\* validator.go:170  count := min(3, int(playlist.Count()))
RandomSample == 3
\* client_test.go:430  cm.viper.SetDefault("checks.segment_sample", 3)
DefaultSegmentSample == 3
\* no random source was constructed
NoSource == "none"
\* validator.go:167  rand.New(rand.NewSource(time.Now().UnixNano()))
SeededSource == "math/rand seeded with the clock"
\* the source of crypto/rand
CryptoSource == "crypto/rand"

CheckModeAll == "all"
CheckModeFirstLast == "first_last"
CheckModeRandom == "random"
CheckModes == {CheckModeAll, CheckModeFirstLast, CheckModeRandom}

ErrPlaylistDownload == "playlist_download"
ErrPlaylistParse == "playlist_parse"
ErrSegmentDownload == "segment_download"
ErrSegmentValidate == "segment_validate"

\* a nil *CheckError
NoError == [Type |-> "", Message |-> ""]

\* err.Error() of a failed transport call; the text is opaque to the checker
TransportError == "transport error"

(***************************************************************************)
(* URLs and net/url reference resolution                                   *)
(***************************************************************************)
\* A URL or URI reference: scheme and host are "" in a relative reference,
\* rooted tells whether the path starts with "/", path is its segments.
URL(scheme, host, rooted, path) ==
    [scheme |-> scheme, host |-> host, rooted |-> rooted, path |-> path]

BlankURI == URL("", "", FALSE, <<>>)

RECURSIVE RemoveDots(_, _)
\* RFC 3986 5.2.4 on a list of path segments: acc is the output so far
RemoveDots(path, acc) ==
    IF path = <<>> THEN acc
    ELSE IF Head(path) = "." THEN RemoveDots(Tail(path), acc)
    ELSE IF Head(path) = ".."
         THEN RemoveDots(Tail(path),
                         IF acc = <<>> THEN acc ELSE SubSeq(acc, 1, Len(acc) - 1))
    ELSE RemoveDots(Tail(path), Append(acc, Head(path)))

\* directory of a base path: everything up to the last "/"
DirOf(path) == IF path = <<>> THEN <<>> ELSE SubSeq(path, 1, Len(path) - 1)

resolveURL(baseURL, relativePath) ==
    IF relativePath.scheme # ""
    THEN [relativePath EXCEPT !.path = RemoveDots(relativePath.path, <<>>)]
    ELSE IF relativePath.host # ""
    THEN [relativePath EXCEPT !.scheme = baseURL.scheme,
                              !.path = RemoveDots(relativePath.path, <<>>)]
    ELSE IF relativePath.path = <<>>
    THEN baseURL
    ELSE IF relativePath.rooted
    THEN [baseURL EXCEPT !.rooted = TRUE,
                         !.path = RemoveDots(relativePath.path, <<>>)]
    ELSE [baseURL EXCEPT !.rooted = TRUE,
                         !.path = RemoveDots(DirOf(baseURL.path) \o relativePath.path, <<>>)]

(***************************************************************************)
(* Playlists as the m3u8 decoder hands them over                           *)
(***************************************************************************)
\* *m3u8.MediaSegment; isNil marks an unused slot of MediaPlaylist.Segments
MediaSegment(uri, seq, dur) ==
    [isNil |-> FALSE, URI |-> uri, SeqId |-> seq, Duration |-> dur]

NilSegment == [isNil |-> TRUE, URI |-> BlankURI, SeqId |-> 0, Duration |-> 0]

\* *m3u8.MediaPlaylist: count is Count(), Segments the backing slice
MediaPlaylist(count, segs) == [isNil |-> FALSE, count |-> count, Segments |-> segs]

\* *m3u8.MasterPlaylist: Variants is the list of variant URIs
MasterPlaylist(variants) == [isNil |-> FALSE, Variants |-> variants]

(***************************************************************************)
(* Validators (validator.go, segment_validator.go); "" is a nil error      *)
(***************************************************************************)
\* ValidateMaster that looks at the URI of the first variant only
ValidateMaster_FirstVariantOnly(playlist) ==
    IF playlist.isNil THEN "empty master playlist"
    ELSE IF Len(playlist.Variants) = 0 THEN "no variants in master playlist"
    ELSE IF playlist.Variants[1] = BlankURI THEN "empty URI in variant"
    ELSE ""

ValidateMaster(playlist) ==
    IF playlist.isNil THEN "empty master playlist"
    ELSE IF Len(playlist.Variants) = 0 THEN "no variants in master playlist"
    ELSE IF \E i \in 1..Len(playlist.Variants) : playlist.Variants[i] = BlankURI
         THEN "empty URI in variant"
    ELSE ""

RECURSIVE SequenceScan(_, _)
\* the loop of ValidateMedia over playlist.Segments with prevSeq
SequenceScan(segs, prevSeq) ==
    IF segs = <<>> THEN ""
    ELSE IF Head(segs).isNil THEN SequenceScan(Tail(segs), prevSeq)
    ELSE IF Head(segs).SeqId < prevSeq THEN "invalid segment sequence"
    ELSE SequenceScan(Tail(segs), Head(segs).SeqId)

\* ValidateMedia whose scan starts with prevSeq = 1
ValidateMedia_FromOne(playlist) ==
    IF playlist.isNil THEN "empty media playlist"
    ELSE IF playlist.count = 0 THEN "no segments in media playlist"
    ELSE SequenceScan(playlist.Segments, 1)

ValidateMedia(playlist) ==
    IF playlist.isNil THEN "empty media playlist"
    ELSE IF playlist.count = 0 THEN "no segments in media playlist"
    ELSE SequenceScan(playlist.Segments, 0)

\* basic validation that looks at the size only
ValidateBasic_SizeOnly(segment) ==
    IF segment.Size = 0 THEN "segment_size: empty segment"
    ELSE ""

ValidateBasic(segment) ==
    IF segment.Size = 0 THEN "segment_size: empty segment"
    ELSE IF segment.Duration <= 0 THEN "segment_size: invalid segment duration"
    ELSE ""

\* ValidateMedia that compares the size before it looks at the container
BasicSegmentValidator_ValidateMedia_SizeFirst(segment, validation) ==
    IF segment.Size < validation.MinSegmentSize
    THEN "segment_size: segment size less than minimum"
    ELSE IF segment.MediaInfo.Container \notin validation.ContainerType
    THEN "container_type: invalid container type"
    ELSE IF validation.CheckVideo /\ ~segment.MediaInfo.HasVideo
    THEN "no_video: no video track found"
    ELSE IF validation.CheckAudio /\ ~segment.MediaInfo.HasAudio
    THEN "no_audio: no audio track found"
    ELSE ""

BasicSegmentValidator_ValidateMedia(segment, validation) ==
    IF segment.MediaInfo.Container \notin validation.ContainerType
    THEN "container_type: invalid container type"
    ELSE IF segment.Size < validation.MinSegmentSize
    THEN "segment_size: segment size less than minimum"
    ELSE IF validation.CheckVideo /\ ~segment.MediaInfo.HasVideo
    THEN "no_video: no video track found"
    ELSE IF validation.CheckAudio /\ ~segment.MediaInfo.HasAudio
    THEN "no_audio: no audio track found"
    ELSE ""

ValidateSegment(segment, validation) ==
    IF ValidateBasic(segment) # "" THEN ValidateBasic(segment)
    ELSE IF validation.present
    THEN BasicSegmentValidator_ValidateMedia(segment, validation)
    ELSE ""

(***************************************************************************)
(* Segment selector (validator.go:139-184)                                 *)
(***************************************************************************)
min(a, b) == IF a < b THEN a ELSE b

\* "all" mode that appends every entry of the slice, nil or not
NonNil_WholeSlice(segs) == segs

NonNil(segs) == SelectSeq(segs, LAMBDA s : ~s.isNil)

\* every sequence of n pairwise distinct elements of S
DistinctDraws(S, n) ==
    {f \in [1..n -> S] : \A i, j \in 1..n : i # j => f[i] # f[j]}

\* selectSegments whose first_last branch appends last without comparing
\* it with first
selectSegments_LastUnchecked(playlist, mode) ==
    IF mode = CheckModeAll
    THEN {NonNil(playlist.Segments)}
    ELSE IF mode = CheckModeFirstLast
    THEN IF playlist.count > 0
         THEN LET first == playlist.Segments[1]
                  last == playlist.Segments[playlist.count]
              IN {(IF ~first.isNil THEN <<first>> ELSE <<>>)
                  \o (IF ~last.isNil THEN <<last>> ELSE <<>>)}
         ELSE {<<>>}
    ELSE IF mode = CheckModeRandom
    THEN IF playlist.count > 0
         THEN LET count == min(RandomSample, playlist.count)
                  live == {i \in 1..playlist.count : ~playlist.Segments[i].isNil}
              IN {[k \in 1..count |-> playlist.Segments[f[k]]] :
                      f \in DistinctDraws(live, count)}
         ELSE {<<>>}
    ELSE {<<>>}

\* The set of slices selectSegments can return.  The random mode draws
\* indices until it has min(3, Count()) distinct non-nil ones, so every
\* sequence of that many distinct non-nil indices is a possible result.
selectSegments(playlist, mode) ==
    IF mode = CheckModeAll
    THEN {NonNil(playlist.Segments)}
    ELSE IF mode = CheckModeFirstLast
    THEN IF playlist.count > 0
         THEN LET first == playlist.Segments[1]
                  last == playlist.Segments[playlist.count]
              IN {(IF ~first.isNil THEN <<first>> ELSE <<>>)
                  \o (IF ~last.isNil /\ playlist.count # 1 THEN <<last>> ELSE <<>>)}
         ELSE {<<>>}
    ELSE IF mode = CheckModeRandom
    THEN IF playlist.count > 0
         THEN LET count == min(RandomSample, playlist.count)
                  live == {i \in 1..playlist.count : ~playlist.Segments[i].isNil}
              IN {[k \in 1..count |-> playlist.Segments[f[k]]] :
                      f \in DistinctDraws(live, count)}
         ELSE {<<>>}
    ELSE {<<>>}

(***************************************************************************)
(* checkSegment (checker.go:250-303)                                       *)
(***************************************************************************)
SegmentCheck(url, success, error) ==
    [URL |-> url, Success |-> success, Error |-> error]

\* checkSegment that only logs what ValidateSegment rejects
checkSegment_ValidationLogged(segment, config, resp) ==
    IF resp.err # ""
    THEN SegmentCheck(segment.URI, FALSE,
                      [Type |-> ErrSegmentDownload, Message |-> resp.err])
    ELSE SegmentCheck(segment.URI, TRUE, NoError)

\* resp is what GetSegment returned: resp.err is "" for a nil error
checkSegment(segment, config, resp) ==
    IF resp.err # ""
    THEN SegmentCheck(segment.URI, FALSE,
                      [Type |-> ErrSegmentDownload, Message |-> resp.err])
    ELSE IF ~config.ValidateContent
    THEN SegmentCheck(segment.URI, TRUE, NoError)
    ELSE LET segData == [URI |-> segment.URI, Duration |-> segment.Duration,
                         Size |-> resp.Size, MediaInfo |-> resp.MediaInfo]
             err == ValidateSegment(segData, config.MediaValidation)
         IN IF err # ""
            THEN SegmentCheck(segment.URI, FALSE,
                              [Type |-> ErrSegmentValidate, Message |-> err])
            ELSE SegmentCheck(segment.URI, TRUE, NoError)

(***************************************************************************)
(* Result bookkeeping of Check (checker.go:60-71, 120-126, 146-163)        *)
(***************************************************************************)
EmptySegmentResults == [Checked |-> 0, Failed |-> 0, Total |-> 0, Details |-> <<>>]

initResult ==
    [Success |-> FALSE, Error |-> NoError, Segments |-> EmptySegmentResults,
     StreamStatus |-> [IsLive |-> FALSE, VariantsCount |-> 0, SegmentsCount |-> 0]]

\* handleError with the error type of a download failure hard-coded
handleError_AlwaysDownload(res, err, errType) ==
    [res EXCEPT !.Success = FALSE,
                !.Error = [Type |-> ErrPlaylistDownload, Message |-> err]]

handleError(res, err, errType) ==
    [res EXCEPT !.Success = FALSE,
                !.Error = [Type |-> errType, Message |-> err]]

updateResultStatus(res, masterPlaylist, segResults) ==
    [res EXCEPT !.Segments = segResults,
                !.StreamStatus = [IsLive |-> TRUE,
                                  VariantsCount |-> Len(masterPlaylist.Variants),
                                  SegmentsCount |-> segResults.Checked]]

\* fmt.Sprintf("%d of %d segments failed validation", Failed, Total)
FailedMessage(segResults) ==
    ToString(segResults.Failed) \o " of " \o ToString(segResults.Total)
        \o " segments failed validation"

\* finishResult of a Check that marks the result failed and leaves its
\* Error unset
finishResult_NoError(res, masterPlaylist, segResults) ==
    LET r == updateResultStatus(res, masterPlaylist, segResults)
    IN IF segResults.Failed > 0
       THEN [r EXCEPT !.Success = FALSE]
       ELSE [r EXCEPT !.Success = TRUE]

\* the tail of Check after checkVariants returned (checker.go:99-117)
finishResult(res, masterPlaylist, segResults) ==
    LET r == updateResultStatus(res, masterPlaylist, segResults)
    IN IF segResults.Failed > 0
       THEN [r EXCEPT !.Success = FALSE,
                      !.Error = [Type |-> ErrSegmentValidate,
                                 Message |-> FailedMessage(segResults)]]
       ELSE [r EXCEPT !.Success = TRUE]

\* finishError of a Check that reports segment failures in the result only
finishError_Nil(segResults) == ""

\* the error Check returns next to finishResult; "" is nil
finishError(segResults) ==
    IF segResults.Failed > 0
    THEN "segment validation failed: " \o FailedMessage(segResults)
    ELSE ""

(***************************************************************************)
(* Metrics sink (metrics/collector.go:114-178)                             *)
(***************************************************************************)
ErrorTypes == {ErrPlaylistDownload, ErrPlaylistParse, ErrSegmentDownload,
               ErrSegmentValidate}

EmptyMetrics ==
    [streamUp |-> FALSE, segmentsCount |-> 0,
     segmentsChecked |-> [success |-> 0, failed |-> 0],
     errorsTotal |-> [t \in ErrorTypes |-> 0],
     updates |-> 0]

SetStreamUp(m, up) == [m EXCEPT !.streamUp = up]

SetSegmentsCount(m, count) == [m EXCEPT !.segmentsCount = count]

RecordSegmentCheck(m, success) ==
    IF success
    THEN [m EXCEPT !.segmentsChecked.success = @ + 1]
    ELSE [m EXCEPT !.segmentsChecked.failed = @ + 1]

\* RecordError that counts every error under one key
RecordError_Unkeyed(m, errorType) ==
    [m EXCEPT !.errorsTotal[ErrPlaylistDownload] = @ + 1]

RecordError(m, errorType) == [m EXCEPT !.errorsTotal[errorType] = @ + 1]

\* checker.go:320-332; updates counts the calls of updateMetrics
updateMetrics(m, res) ==
    LET m1 == SetStreamUp(m, res.Success)
        m2 == SetSegmentsCount(m1, res.Segments.Checked)
        m3 == RecordSegmentCheck(m2, res.Success)
        m4 == IF res.Error # NoError THEN RecordError(m3, res.Error.Type) ELSE m3
    IN [m4 EXCEPT !.updates = @ + 1]

(***************************************************************************)
(* The origin and the transport (http client, GetPlaylist / GetSegment)    *)
(***************************************************************************)
MasterURL == URL("http", "origin", TRUE, <<"live", "master.m3u8">>)

\* URI of the i-th variant as written in the master playlist
VariantURI(i) ==
    IF i % 2 = 1
    THEN URL("", "", FALSE, <<"v" \o ToString(i) \o ".m3u8">>)
    ELSE URL("", "", FALSE, <<"hi", "v" \o ToString(i) \o ".m3u8">>)

\* URI of the j-th segment as written in the playlist of variant i
SegmentURI(i, j) ==
    IF j % 2 = 1
    THEN URL("", "", FALSE, <<"s" \o ToString(i) \o "_" \o ToString(j) \o ".ts">>)
    ELSE URL("", "", FALSE, <<"..", "seg", "s" \o ToString(i) \o "_" \o ToString(j) \o ".ts">>)

\* a byte-range playlist names one media file in every segment entry
ByteRangeURI == URL("http", "cdn", TRUE, <<"media", "all.ts">>)

NilMaster == [isNil |-> TRUE, Variants |-> <<>>]

NilMedia == [isNil |-> TRUE, count |-> 0, Segments |-> <<>>]

\* what GetPlaylist returns: err is "" for a nil error; kind is what
\* m3u8.DecodeFrom makes of the body ("master", "media" or "garbage")
PlaylistResponse(err, kind, mp, pl) ==
    [err |-> err, kind |-> kind, master |-> mp, media |-> pl]

FailedPlaylist == PlaylistResponse(TransportError, "garbage", NilMaster, NilMedia)

\* a body m3u8.DecodeFrom rejects
GarbagePlaylist == PlaylistResponse("", "garbage", NilMaster, NilMedia)

\* the variant lists of the master playlists the origin serves: up to
\* MaxGoroutines - 1 variants, at most one of them with a blank URI
MasterVariantLists ==
    UNION {{[i \in 1..n |-> IF i = b THEN BlankURI ELSE VariantURI(i)] : b \in 0..n} :
               n \in 0..(MaxGoroutines - 1)}

\* a decoded media playlist of variant i with k segments followed by one
\* unused slot; its even segments carry #EXTINF:0
OrdinaryMedia(i, k) ==
    MediaPlaylist(k, [j \in 1..(k + 1) |->
                        IF j > k THEN NilSegment
                        ELSE MediaSegment(SegmentURI(i, j), j - 1,
                                          IF j % 2 = 0 THEN 0 ELSE 10)])

\* a byte-range playlist with one more segment than the result channel of a
\* single-variant check can buffer
ByteRangeMedia ==
    MediaPlaylist(ResultChPerVariant + 1,
                  [j \in 1..(ResultChPerVariant + 1) |-> MediaSegment(ByteRangeURI, j - 1, 10)])

MediaCatalogue(i) ==
    {OrdinaryMedia(i, k) : k \in 0..(MaxGoroutines - 1)} \cup {ByteRangeMedia}

\* responses of GetPlaylist for the master URL
MasterResponses(done) ==
    IF done THEN {FailedPlaylist}
    ELSE {FailedPlaylist, GarbagePlaylist}
         \cup {PlaylistResponse("", "media", NilMaster, OrdinaryMedia(1, 1))}
         \cup {PlaylistResponse("", "master", MasterPlaylist(v), NilMedia) :
                   v \in MasterVariantLists}

\* responses of GetPlaylist for the playlist of variant i
VariantResponses(done, i) ==
    IF done THEN {FailedPlaylist}
    ELSE {FailedPlaylist, GarbagePlaylist}
         \cup {PlaylistResponse("", "master", MasterPlaylist(<<VariantURI(1)>>), NilMedia)}
         \cup {PlaylistResponse("", "media", NilMaster, pl) : pl \in MediaCatalogue(i)}

\* parseMasterPlaylist / parseMediaPlaylist (checker.go:334-358): "" is nil
parseMasterPlaylist(resp) ==
    IF resp.kind = "garbage" THEN "decode error"
    ELSE IF resp.kind # "master" THEN "expected master playlist"
    ELSE ""

parseMediaPlaylist(resp) ==
    IF resp.kind = "garbage" THEN "decode error"
    ELSE IF resp.kind # "media" THEN "expected media playlist"
    ELSE ""

ZeroMediaInfo == [Container |-> "", HasVideo |-> FALSE, HasAudio |-> FALSE]

\* what GetSegment returns; cancelled tells that the check context aborted
\* the request
SegmentResponse(err, size, info, cancelled) ==
    [err |-> err, Size |-> size, MediaInfo |-> info, cancelled |-> cancelled]

FailedSegment(cancelled) == SegmentResponse(TransportError, 0, ZeroMediaInfo, cancelled)

TSInfo == [Container |-> "TS", HasVideo |-> TRUE, HasAudio |-> TRUE]

MP4Info == [Container |-> "MP4", HasVideo |-> TRUE, HasAudio |-> TRUE]

\* responses of GetSegment(ctx, url, validate): a cancelled context fails
\* the request; without validate only the headers are read (HEAD); the
\* media file of the byte-range playlist is missing at the origin
SegmentResponses(done, url, validate) ==
    IF done THEN {FailedSegment(TRUE)}
    ELSE IF url = ByteRangeURI
    THEN {FailedSegment(FALSE)}
    ELSE IF validate
    THEN {FailedSegment(FALSE),
          SegmentResponse("", 2048, TSInfo, FALSE),
          SegmentResponse("", 0, TSInfo, FALSE),
          SegmentResponse("", 2048, MP4Info, FALSE)}
    ELSE {FailedSegment(FALSE),
          SegmentResponse("", 2048, ZeroMediaInfo, FALSE),
          SegmentResponse("", 0, ZeroMediaInfo, FALSE)}

\* a nil *MediaValidation and the policy of the configured streams
NoPolicy ==
    [present |-> FALSE, ContainerType |-> {}, MinSegmentSize |-> 0,
     CheckAudio |-> FALSE, CheckVideo |-> FALSE]

TSPolicy ==
    [present |-> TRUE, ContainerType |-> {"TS"}, MinSegmentSize |-> 1024,
     CheckAudio |-> TRUE, CheckVideo |-> TRUE]

\* the StreamConfig values Check is called with: every check mode without
\* content validation, and mode "all" with content validation, without and
\* with a media policy
StreamConfigs ==
    [URL : {MasterURL}, CheckMode : CheckModes, ValidateContent : {FALSE},
     MediaValidation : {NoPolicy}]
    \cup [URL : {MasterURL}, CheckMode : {CheckModeAll}, ValidateContent : {TRUE},
          MediaValidation : {NoPolicy, TSPolicy}]

\* a zero models.SegmentData
ZeroSegmentData ==
    [URI |-> BlankURI, Duration |-> 0, Size |-> 0, MediaInfo |-> ZeroMediaInfo]

\* a call of a method of models.Validator with its arguments
ValidatorCall(op, segment, validation, mp, pl) ==
    [op |-> op, segment |-> segment, validation |-> validation,
     master |-> mp, media |-> pl]

\* the bag of the elements of a sequence
RECURSIVE SeqToBag(_)
SeqToBag(seq) ==
    IF seq = <<>> THEN EmptyBag
    ELSE SetToBag({Head(seq)}) (+) SeqToBag(Tail(seq))

(***************************************************************************)
(* State                                                                   *)
(***************************************************************************)
VARIABLES
    pc,        \* position of the goroutine running Check
    cfg,       \* the StreamConfig Check was called with
    ctxDone,   \* the check context is cancelled or timed out
    master,    \* the validated master playlist
    result,    \* the CheckResult of Check
    retErr,    \* the error Check returns ("" is nil)
    results,   \* the SegmentResults local of checkVariants
    resultCh,  \* contents of the buffered channel resultCh
    chCap,     \* capacity of resultCh
    chClosed,  \* resultCh is closed
    wg,        \* counter of the WaitGroup of checkVariants
    vtask,     \* the variant goroutines, by index in master.Variants
    stask,     \* the segment goroutines, a bag of their local states
    requests,  \* the calls the transport has received, a bag
    metrics,   \* the metrics sink
    mstage,    \* which return of checkMasterPlaylist was taken
    aborted,   \* URLs of the segment fetches the context aborted, a bag
    produced,  \* the SegmentChecks checkSegment has returned, a bag
    lpc,          \* position of each goroutine that calls Start and Stop
    stopChClosed, \* c.stopCh is closed
    poolWg,       \* counter of c.wg, the WaitGroup of the worker pool
    workersAlive, \* number of worker goroutines that have not returned
    ticks,        \* ticks the workers have consumed
    lifeCalls,    \* number of Start and Stop calls made
    late,         \* per caller: its Stop began after a Stop had returned
    stopReturns,  \* number of Stop calls that have returned
    stopLeft,     \* workers alive when the latest Stop returned
    other,        \* a Check of another stream on the same checker
    selIn,        \* playlist and mode of a call of selectSegments, and the
                  \* checks.segment_sample of the loaded configuration
    selOut,       \* the slice that call returned
    selPc,        \* position of that call
    selRng,       \* the random source that call drew its indices from
    valIn,        \* method and arguments of a call of the validator
    valOut,       \* the error that call returned ("" is nil)
    valPc,        \* position of that call
    urlIn,        \* master URL, variant URI and segment URI to be resolved
    urlOut,       \* the variant URL and the segment URL resolved from them
    urlPc,        \* position of that resolution
    cfgIn,        \* the configuration LoadConfig has read and unmarshalled
    cfgOut,       \* the error LoadConfig returned ("" is nil)
    cfgPc,        \* position of that call
    pollPc,       \* position of each runStreamChecks loop
    tickReady,    \* whether a tick waits in the ticker.C of each loop
    started,      \* number of Check calls each loop has made
    inFlight,     \* the Check calls of each loop that have not returned
    liveCtx,      \* the timeout contexts of each loop not yet cancelled
    rndIn,        \* the playlist handed to the sampling loop of random mode
    rndSeen,      \* the indices that loop has accepted (seen)
    rndOut,       \* the segments it has appended
    rndGen,       \* the state of that loop's generator, modulo 2
    rndPc         \* position of that loop

\* the state of one Check invocation
checkVars == <<pc, cfg, ctxDone, master, result, retErr, results, resultCh, chCap,
               chClosed, wg, vtask, stask, requests, metrics, mstage, aborted,
               produced>>

\* the state of the checker's lifecycle (Start, Stop, worker)
lifeVars == <<lpc, stopChClosed, poolWg, workersAlive, ticks, lifeCalls, late,
              stopReturns, stopLeft>>

\* the state of a call of selectSegments
selVars == <<selIn, selOut, selPc, selRng>>

\* the state of a call of a validator
valVars == <<valIn, valOut, valPc>>

\* the state of a resolution of playlist URIs
urlVars == <<urlIn, urlOut, urlPc>>

\* the state of a call of LoadConfig
cfgVars == <<cfgIn, cfgOut, cfgPc>>

\* the state of the runStreamChecks loops
pollVars == <<pollPc, tickReady, started, inFlight, liveCtx>>

\* the state of the sampling loop of random mode, step by step
rndVars == <<rndIn, rndSeen, rndOut, rndGen, rndPc>>

\* the state of the operations modelled on their own besides the selector
\* and the validator
auxVars == <<urlVars, cfgVars, pollVars, rndVars>>

vars == <<checkVars, lifeVars, other, selVars, valVars, auxVars>>

\* an invocation of Check for another stream: its position, its CheckResult
\* and the series of the metrics sink labelled with its stream name
OtherCheck(p, res, series) == [pc |-> p, result |-> res, metrics |-> series]

\* the goroutines that call Start and Stop
Callers == {1, 2}

Request(op, url, validate) == [op |-> op, url |-> url, validate |-> validate]

\* the HTTP method of a transport that fetches every segment in full
RequestMethod_AlwaysGet(req) == "GET"

\* the HTTP method the transport uses for a call: GetSegment turns the GET
\* request into HEAD when validate is false (http client, GetSegment)
RequestMethod(req) ==
    IF req.op = "GetSegment" /\ ~req.validate THEN "HEAD" ELSE "GET"

\* a variant goroutine: stage is whether its playlist loaded ("ok", "failed"),
\* segments the slice selectSegments returned (as SegmentRefs, empty again
\* once the goroutine has returned), tmp the value of results.Total it read
\* for its += update; selected remembers the URLs it selected, as a bag
VariantTask(p, url, stage, segments, tmp, selected) ==
    [pc |-> p, url |-> url, stage |-> stage, segments |-> segments, tmp |-> tmp,
     selected |-> selected]

\* a segment goroutine: fetching seg, or holding segCheck to send
SegmentTask(p, seg, check) == [pc |-> p, seg |-> seg, check |-> check]

NoCheck == SegmentCheck(BlankURI, FALSE, NoError)

\* the fields of a *m3u8.MediaSegment that checkSegment reads
SegmentRef(seg) == [URI |-> seg.URI, Duration |-> seg.Duration]

\* the value of seg once checkSegment has returned and seg is dead
NoSegment == [URI |-> BlankURI, Duration |-> 0]

\* number of segment goroutines the first i variants have selected so far
RECURSIVE Planned(_, _)
Planned(tasks, i) ==
    IF i = 0 THEN 0 ELSE BagCardinality(tasks[i].selected) + Planned(tasks, i - 1)

\* the state after NewStreamChecker, no call made
InitChecker ==
    /\ pc = "idle"
    /\ cfg = [URL |-> MasterURL, CheckMode |-> CheckModeAll,
              ValidateContent |-> FALSE, MediaValidation |-> NoPolicy]
    /\ ctxDone = FALSE
    /\ master = NilMaster
    /\ result = initResult
    /\ retErr = ""
    /\ results = EmptySegmentResults
    /\ resultCh = <<>>
    /\ chCap = 0
    /\ chClosed = FALSE
    /\ wg = 0
    /\ vtask = <<>>
    /\ stask = EmptyBag
    /\ requests = EmptyBag
    /\ metrics = EmptyMetrics
    /\ mstage = ""
    /\ aborted = EmptyBag
    /\ produced = EmptyBag
    /\ lpc = [c \in Callers |-> "idle"]
    /\ stopChClosed = FALSE
    /\ poolWg = 0
    /\ workersAlive = 0
    /\ ticks = 0
    /\ lifeCalls = 0
    /\ late = [c \in Callers |-> FALSE]
    /\ stopReturns = 0
    /\ stopLeft = 0
    /\ other = OtherCheck("idle", initResult, EmptyMetrics)

\* no call of selectSegments is made
SelectorIdle ==
    /\ selIn = [playlist |-> NilMedia, mode |-> CheckModeAll,
                sample |-> DefaultSegmentSample]
    /\ selOut = <<>>
    /\ selPc = "idle"
    /\ selRng = NoSource

\* no call of the validator is made
ValidatorIdle ==
    /\ valIn = ValidatorCall("none", ZeroSegmentData, NoPolicy, NilMaster, NilMedia)
    /\ valOut = ""
    /\ valPc = "idle"

\* no resolution of playlist URIs is made
ResolverIdle ==
    /\ urlIn = [base |-> BlankURI, variant |-> BlankURI, segment |-> BlankURI]
    /\ urlOut = [variant |-> BlankURI, segment |-> BlankURI]
    /\ urlPc = "idle"

\* models.Config, the fields the validator reads
Config(port, workers, retryAttempts, streams) ==
    [Port |-> port, Workers |-> workers, RetryAttempts |-> retryAttempts,
     Streams |-> streams]

\* no call of LoadConfig is made
ConfigIdle ==
    /\ cfgIn = Config(0, 0, 0, <<>>)
    /\ cfgOut = ""
    /\ cfgPc = "idle"

\* the streams main starts a polling loop for
PollStreams == 1..MaxStreams

\* main has not started the polling loops
PollIdle ==
    /\ pollPc = [s \in PollStreams |-> "idle"]
    /\ tickReady = [s \in PollStreams |-> FALSE]
    /\ started = [s \in PollStreams |-> 0]
    /\ inFlight = [s \in PollStreams |-> {}]
    /\ liveCtx = [s \in PollStreams |-> {}]

\* the sampling loop of random mode is not running
RandomIdle ==
    /\ rndIn = [Segments |-> <<>>, count |-> 0]
    /\ rndSeen = {}
    /\ rndOut = <<>>
    /\ rndGen = 0
    /\ rndPc = "idle"

\* none of the operations modelled on their own is running
AuxIdle == ResolverIdle /\ ConfigIdle /\ PollIdle /\ RandomIdle

Init ==
    /\ InitChecker
    /\ selIn = [playlist |-> NilMedia, mode |-> CheckModeAll,
                sample |-> DefaultSegmentSample]
    /\ selOut = <<>>
    /\ selPc = "idle"
    /\ selRng = NoSource
    /\ valIn = ValidatorCall("none", ZeroSegmentData, NoPolicy, NilMaster, NilMedia)
    /\ valOut = ""
    /\ valPc = "idle"
    /\ AuxIdle

(***************************************************************************)
(* Check (checker.go:84-118)                                               *)
(***************************************************************************)
\* Check is called: initResult, then checkMasterPlaylist issues the
\* GetPlaylist call for the master URL
\* CheckCall of a Check that asks for the master playlist twice
CheckCall_Twice(stream) ==
    /\ pc = "idle"
    /\ cfg' = stream
    /\ result' = initResult
    /\ requests' = requests (+) SetToBag({Request("GetPlaylist", stream.URL, FALSE)})
                            (+) SetToBag({Request("GetPlaylist", stream.URL, FALSE)})
    /\ pc' = "master"
    /\ UNCHANGED <<ctxDone, master, retErr, results, resultCh, chCap, chClosed,
                   wg, vtask, stask, metrics, mstage, aborted, produced,
                   lifeVars, other, selVars, valVars, auxVars>>

CheckCall(stream) ==
    /\ pc = "idle"
    /\ cfg' = stream
    /\ result' = initResult
    /\ requests' = requests (+) SetToBag({Request("GetPlaylist", stream.URL, FALSE)})
    /\ pc' = "master"
    /\ UNCHANGED <<ctxDone, master, retErr, results, resultCh, chCap, chClosed,
                   wg, vtask, stask, metrics, mstage, aborted, produced,
                   lifeVars, other, selVars, valVars, auxVars>>

\* MasterFailed with every failure of checkMasterPlaylist tagged as a parse
\* failure
MasterFailed_AlwaysParse(err, errType, stage) ==
    LET r == handleError(result, err, ErrPlaylistParse)
    IN /\ result' = r
       /\ metrics' = updateMetrics(metrics, r)
       /\ retErr' = err
       /\ mstage' = stage
       /\ pc' = "done"
       /\ UNCHANGED <<cfg, ctxDone, master, results, resultCh, chCap, chClosed,
                      wg, vtask, stask, requests, aborted, produced,
                      lifeVars, other, selVars, valVars, auxVars>>

\* early return of Check after checkMasterPlaylist failed (checker.go:90-95)
MasterFailed(err, errType, stage) ==
    LET r == handleError(result, err, errType)
    IN /\ result' = r
       /\ metrics' = updateMetrics(metrics, r)
       /\ retErr' = err
       /\ mstage' = stage
       /\ pc' = "done"
       /\ UNCHANGED <<cfg, ctxDone, master, results, resultCh, chCap, chClosed,
                      wg, vtask, stask, requests, aborted, produced,
                      lifeVars, other, selVars, valVars, auxVars>>

\* entry of checkVariants (checker.go:170-237): the channel is made, one
\* goroutine per variant is started and issues its GetPlaylist call, and the
\* closing goroutine is started
StartVariants(mp) ==
    LET n == Len(mp.Variants)
        urls == [i \in 1..n |-> resolveURL(cfg.URL, mp.Variants[i])]
    IN /\ master' = mp
       /\ results' = EmptySegmentResults
       /\ resultCh' = <<>>
       /\ chCap' = n * ResultChPerVariant
       /\ chClosed' = FALSE
       /\ wg' = n
       /\ vtask' = [i \in 1..n |-> VariantTask("fetch", urls[i], "", <<>>, 0, EmptyBag)]
       /\ requests' = requests (+)
             SetToBag({Request("GetPlaylist", urls[i], FALSE) : i \in 1..n})
       /\ mstage' = "ok"
       /\ pc' = "collect"
       /\ UNCHANGED <<cfg, ctxDone, result, retErr, stask, metrics, aborted, produced,
        lifeVars, other, selVars, valVars, auxVars>>

\* GetPlaylist for the master returns; checkMasterPlaylist parses and
\* validates (checker.go:128-144)
MasterReturn ==
    /\ pc = "master"
    /\ \E resp \in MasterResponses(ctxDone) :
          IF resp.err # ""
          THEN MasterFailed(resp.err, ErrPlaylistDownload, "fetch")
          ELSE IF parseMasterPlaylist(resp) # ""
          THEN MasterFailed(parseMasterPlaylist(resp), ErrPlaylistParse, "parse")
          ELSE IF ValidateMaster(resp.master) # ""
          THEN MasterFailed(ValidateMaster(resp.master), ErrPlaylistParse, "validate")
          ELSE StartVariants(resp.master)

(***************************************************************************)
(* Variant goroutine (checker.go:183-230)                                  *)
(***************************************************************************)
\* VariantFailed as the sequential checkVariants had it: a failed variant
\* is counted in results.Failed
VariantFailed_Counted(v) ==
    /\ vtask' = [vtask EXCEPT ![v] = VariantTask("done", @.url, "failed", <<>>, 0, EmptyBag)]
    /\ wg' = wg - 1
    /\ results' = [results EXCEPT !.Failed = @ + 1]
    /\ UNCHANGED <<pc, cfg, ctxDone, master, result, retErr, resultCh,
                   chCap, chClosed, stask, requests, metrics, mstage, aborted, produced,
                   lifeVars, other, selVars, valVars, auxVars>>

\* the goroutine logs the failure and returns; the deferred wg.Done runs
VariantFailed(v) ==
    /\ vtask' = [vtask EXCEPT ![v] = VariantTask("done", @.url, "failed", <<>>, 0, EmptyBag)]
    /\ wg' = wg - 1
    /\ UNCHANGED <<pc, cfg, ctxDone, master, result, retErr, results, resultCh,
                   chCap, chClosed, stask, requests, metrics, mstage, aborted, produced,
                   lifeVars, other, selVars, valVars, auxVars>>

\* segment URIs are resolved against the variant URL (checker.go:209-213)
ResolveSegments(variantURL, playlist) ==
    [playlist EXCEPT !.Segments =
        [j \in 1..Len(playlist.Segments) |->
            IF playlist.Segments[j].isNil THEN playlist.Segments[j]
            ELSE [playlist.Segments[j] EXCEPT
                     !.URI = resolveURL(variantURL, playlist.Segments[j].URI)]]]

\* the playlist validated: segments are resolved and selected, and the
\* goroutine reads results.Total for its unsynchronised += (checker.go:216)
VariantSelected(v, playlist) ==
    \E selected \in selectSegments(ResolveSegments(vtask[v].url, playlist), cfg.CheckMode) :
      LET segments == [j \in 1..Len(selected) |-> SegmentRef(selected[j])] IN
        /\ IF Len(vtask) = 1 /\ \A j \in 1..Len(segments) : segments[j].URI = ByteRangeURI
           THEN TRUE
           ELSE Len(vtask) + Planned(vtask, Len(vtask)) + Len(segments) <= MaxGoroutines
        /\ vtask' = [vtask EXCEPT ![v] =
                        VariantTask("total", @.url, "ok", segments, results.Total,
                                    SeqToBag([j \in 1..Len(segments) |-> segments[j].URI]))]
        /\ UNCHANGED <<pc, cfg, ctxDone, master, result, retErr, results, resultCh,
                       chCap, chClosed, wg, stask, requests, metrics, mstage, aborted, produced,
                       lifeVars, other, selVars, valVars, auxVars>>

\* GetPlaylist for variant v returns; parse, validate, select
VariantReturn(v) ==
    /\ vtask[v].pc = "fetch"
    /\ \E resp \in VariantResponses(ctxDone, v) :
          IF resp.err # ""
          THEN VariantFailed(v)
          ELSE IF parseMediaPlaylist(resp) # ""
          THEN VariantFailed(v)
          ELSE IF ValidateMedia(resp.media) # ""
          THEN VariantFailed(v)
          ELSE VariantSelected(v, resp.media)

\* VariantSpawn of a checkVariants that gives up on the first failed variant:
\* the goroutine returns without starting segment goroutines once another
\* variant has failed
VariantSpawn_UnlessFailed(v) ==
    /\ vtask[v].pc = "total"
    /\ LET segments == IF \E w \in DOMAIN vtask : vtask[w].stage = "failed"
                       THEN <<>> ELSE vtask[v].segments
           new == [j \in 1..Len(segments) |-> SegmentTask("fetch", segments[j], NoCheck)]
           calls == [j \in 1..Len(segments) |->
                        Request("GetSegment", segments[j].URI, cfg.ValidateContent)]
       IN /\ results' = [results EXCEPT !.Total = vtask[v].tmp + Len(segments)]
          /\ stask' = stask (+) SeqToBag(new)
          /\ requests' = requests (+) SeqToBag(calls)
          /\ wg' = wg + Len(segments) - 1
    /\ vtask' = [vtask EXCEPT ![v] =
                    VariantTask("done", @.url, @.stage, <<>>, 0, @.selected)]
    /\ UNCHANGED <<pc, cfg, ctxDone, master, result, retErr, resultCh, chCap,
                   chClosed, metrics, mstage, aborted, produced,
                   lifeVars, other, selVars, valVars, auxVars>>

\* VariantSpawn of a checkVariants whose segment goroutines call wg.Add(1)
\* themselves: the variant goroutine returns, and its deferred wg.Done
\* runs, before any of them is registered
VariantSpawn_AddInGoroutine(v) ==
    /\ vtask[v].pc = "total"
    /\ LET segments == vtask[v].segments
           new == [j \in 1..Len(segments) |-> SegmentTask("fetch", segments[j], NoCheck)]
           calls == [j \in 1..Len(segments) |->
                        Request("GetSegment", segments[j].URI, cfg.ValidateContent)]
       IN /\ results' = [results EXCEPT !.Total = vtask[v].tmp + Len(segments)]
          /\ stask' = stask (+) SeqToBag(new)
          /\ requests' = requests (+) SeqToBag(calls)
          /\ wg' = wg - 1
    /\ vtask' = [vtask EXCEPT ![v] =
                    VariantTask("done", @.url, @.stage, <<>>, 0, @.selected)]
    /\ UNCHANGED <<pc, cfg, ctxDone, master, result, retErr, resultCh, chCap,
                   chClosed, metrics, mstage, aborted, produced,
                   lifeVars, other, selVars, valVars, auxVars>>

\* the write of results.Total, then one goroutine per selected segment is
\* started (wg.Add(1) each) and issues its GetSegment call; the variant
\* goroutine returns and its deferred wg.Done runs (checker.go:216-230)
VariantSpawn(v) ==
    /\ vtask[v].pc = "total"
    /\ LET segments == vtask[v].segments
           new == [j \in 1..Len(segments) |-> SegmentTask("fetch", segments[j], NoCheck)]
           calls == [j \in 1..Len(segments) |->
                        Request("GetSegment", segments[j].URI, cfg.ValidateContent)]
       IN /\ results' = [results EXCEPT !.Total = vtask[v].tmp + Len(segments)]
          /\ stask' = stask (+) SeqToBag(new)
          /\ requests' = requests (+) SeqToBag(calls)
          /\ wg' = wg + Len(segments) - 1
    /\ vtask' = [vtask EXCEPT ![v] =
                    VariantTask("done", @.url, @.stage, <<>>, 0, @.selected)]
    /\ UNCHANGED <<pc, cfg, ctxDone, master, result, retErr, resultCh, chCap,
                   chClosed, metrics, mstage, aborted, produced,
                   lifeVars, other, selVars, valVars, auxVars>>

(***************************************************************************)
(* Segment goroutine (checker.go:224-228)                                  *)
(***************************************************************************)
\* SegmentReturn of a goroutine that returns without a result when its
\* request was aborted by the context
SegmentReturn_DropCancelled(t) ==
    /\ t.pc = "fetch"
    /\ \E resp \in SegmentResponses(ctxDone, t.seg.URI, cfg.ValidateContent) :
          LET segCheck == checkSegment(t.seg, cfg, resp) IN
          /\ IF resp.cancelled
             THEN /\ stask' = stask (-) SetToBag({t})
                  /\ wg' = wg - 1
                  /\ UNCHANGED resultCh
             ELSE IF ~chClosed /\ Len(resultCh) < chCap
             THEN /\ resultCh' = Append(resultCh, segCheck)
                  /\ stask' = stask (-) SetToBag({t})
                  /\ wg' = wg - 1
             ELSE /\ stask' = (stask (-) SetToBag({t}))
                               (+) SetToBag({SegmentTask("send", NoSegment, segCheck)})
                  /\ UNCHANGED <<resultCh, wg>>
          /\ aborted' = IF resp.cancelled
                        THEN aborted (+) SetToBag({t.seg.URI})
                        ELSE aborted
          /\ produced' = produced (+) SetToBag({segCheck})
    /\ UNCHANGED <<pc, cfg, ctxDone, master, result, retErr, results,
                   chCap, chClosed, vtask, requests, metrics, mstage,
                   lifeVars, other, selVars, valVars, auxVars>>

\* GetSegment returns, checkSegment builds the SegmentCheck and the goroutine
\* runs on to  resultCh <- segCheck  and its deferred wg.Done; it stops in
\* front of the send when the buffer is full
SegmentReturn(t) ==
    /\ t.pc = "fetch"
    /\ \E resp \in SegmentResponses(ctxDone, t.seg.URI, cfg.ValidateContent) :
          LET segCheck == checkSegment(t.seg, cfg, resp) IN
          /\ IF ~chClosed /\ Len(resultCh) < chCap
             THEN /\ resultCh' = Append(resultCh, segCheck)
                  /\ stask' = stask (-) SetToBag({t})
                  /\ wg' = wg - 1
             ELSE /\ stask' = (stask (-) SetToBag({t}))
                               (+) SetToBag({SegmentTask("send", NoSegment, segCheck)})
                  /\ UNCHANGED <<resultCh, wg>>
          /\ aborted' = IF resp.cancelled
                        THEN aborted (+) SetToBag({t.seg.URI})
                        ELSE aborted
          /\ produced' = produced (+) SetToBag({segCheck})
    /\ UNCHANGED <<pc, cfg, ctxDone, master, result, retErr, results,
                   chCap, chClosed, vtask, requests, metrics, mstage,
                   lifeVars, other, selVars, valVars, auxVars>>

\* SegmentSend as a non-blocking send (select with a default case): the
\* goroutine stopped in front of a full buffer gives its SegmentCheck up
SegmentSend_NonBlocking(t) ==
    /\ t.pc = "send"
    /\ IF chClosed
       THEN /\ pc' = "panic"
            /\ UNCHANGED <<resultCh, stask, wg>>
       ELSE /\ resultCh' = IF Len(resultCh) < chCap
                           THEN Append(resultCh, t.check) ELSE resultCh
            /\ stask' = stask (-) SetToBag({t})
            /\ wg' = wg - 1
            /\ pc' = pc
    /\ UNCHANGED <<cfg, ctxDone, master, result, retErr, results, chCap,
                   chClosed, vtask, requests, metrics, mstage, aborted, produced,
                   lifeVars, other, selVars, valVars, auxVars>>

\* a goroutine stopped in front of  resultCh <- segCheck  sends once the
\* buffer has room; a send on a closed channel panics
SegmentSend(t) ==
    /\ t.pc = "send"
    /\ IF chClosed
       THEN /\ pc' = "panic"
            /\ UNCHANGED <<resultCh, stask, wg>>
       ELSE /\ Len(resultCh) < chCap
            /\ resultCh' = Append(resultCh, t.check)
            /\ stask' = stask (-) SetToBag({t})
            /\ wg' = wg - 1
            /\ pc' = pc
    /\ UNCHANGED <<cfg, ctxDone, master, result, retErr, results, chCap,
                   chClosed, vtask, requests, metrics, mstage, aborted, produced,
                   lifeVars, other, selVars, valVars, auxVars>>

(***************************************************************************)
(* Aggregation (checker.go:233-248) and the tail of Check                  *)
(***************************************************************************)
\* the closing goroutine: wg.Wait() returned, close(resultCh)
\* CloseResultCh of a closing goroutine that waits for the variant
\* goroutines only
CloseResultCh_VariantsOnly ==
    /\ pc = "collect"
    /\ ~chClosed
    /\ \A v \in DOMAIN vtask : vtask[v].pc = "done"
    /\ chClosed' = TRUE
    /\ UNCHANGED <<pc, cfg, ctxDone, master, result, retErr, results, resultCh,
                   chCap, wg, vtask, stask, requests, metrics, mstage, aborted, produced,
                   lifeVars, other, selVars, valVars, auxVars>>

CloseResultCh ==
    /\ pc = "collect"
    /\ ~chClosed
    /\ wg = 0
    /\ chClosed' = TRUE
    /\ UNCHANGED <<pc, cfg, ctxDone, master, result, retErr, results, resultCh,
                   chCap, wg, vtask, stask, requests, metrics, mstage, aborted, produced,
                   lifeVars, other, selVars, valVars, auxVars>>

\* Receive of an aggregation that counts the failures since the last
\* successful SegmentCheck
Receive_FailureStreak ==
    /\ pc = "collect"
    /\ resultCh # <<>>
    /\ LET segCheck == Head(resultCh)
       IN results' = [results EXCEPT
                         !.Checked = @ + 1,
                         !.Details = Append(@, segCheck),
                         !.Failed = IF segCheck.Success THEN 0 ELSE @ + 1]
    /\ resultCh' = Tail(resultCh)
    /\ UNCHANGED <<pc, cfg, ctxDone, master, result, retErr, chCap, chClosed,
                   wg, vtask, stask, requests, metrics, mstage, aborted, produced,
                   lifeVars, other, selVars, valVars, auxVars>>

\* Receive of a checkVariants that waits for wg.Wait() and close(resultCh)
\* on the main goroutine before it ranges over the channel
Receive_AfterClose ==
    /\ pc = "collect"
    /\ chClosed
    /\ resultCh # <<>>
    /\ LET segCheck == Head(resultCh)
       IN results' = [results EXCEPT
                         !.Checked = @ + 1,
                         !.Details = Append(@, segCheck),
                         !.Failed = IF segCheck.Success THEN @ ELSE @ + 1]
    /\ resultCh' = Tail(resultCh)
    /\ UNCHANGED <<pc, cfg, ctxDone, master, result, retErr, chCap, chClosed,
                   wg, vtask, stask, requests, metrics, mstage, aborted, produced,
                   lifeVars, other, selVars, valVars, auxVars>>

\* one iteration of  for segCheck := range resultCh
Receive ==
    /\ pc = "collect"
    /\ resultCh # <<>>
    /\ LET segCheck == Head(resultCh)
       IN results' = [results EXCEPT
                         !.Checked = @ + 1,
                         !.Details = Append(@, segCheck),
                         !.Failed = IF segCheck.Success THEN @ ELSE @ + 1]
    /\ resultCh' = Tail(resultCh)
    /\ UNCHANGED <<pc, cfg, ctxDone, master, result, retErr, chCap, chClosed,
                   wg, vtask, stask, requests, metrics, mstage, aborted, produced,
                   lifeVars, other, selVars, valVars, auxVars>>

\* CheckReturn of a Check that reports to the metrics sink on success only
CheckReturn_MetricsOnSuccess ==
    /\ pc = "collect"
    /\ resultCh = <<>>
    /\ chClosed
    /\ LET r == finishResult(result, master, results)
       IN /\ result' = r
          /\ metrics' = IF r.Success THEN updateMetrics(metrics, r) ELSE metrics
    /\ retErr' = finishError(results)
    /\ pc' = "done"
    /\ UNCHANGED <<cfg, ctxDone, master, results, resultCh, chCap, chClosed,
                   wg, vtask, stask, requests, mstage, aborted, produced,
                   lifeVars, other, selVars, valVars, auxVars>>

\* the range loop ends on the closed, drained channel; checkVariants returns
\* and Check sets the status, updates the metrics and returns
CheckReturn ==
    /\ pc = "collect"
    /\ resultCh = <<>>
    /\ chClosed
    /\ LET r == finishResult(result, master, results)
       IN /\ result' = r
          /\ metrics' = updateMetrics(metrics, r)
    /\ retErr' = finishError(results)
    /\ pc' = "done"
    /\ UNCHANGED <<cfg, ctxDone, master, results, resultCh, chCap, chClosed,
                   wg, vtask, stask, requests, mstage, aborted, produced,
                   lifeVars, other, selVars, valVars, auxVars>>

\* the deadline of the check context passes, or the caller cancels it
Cancel ==
    /\ pc \in {"master", "collect"}
    /\ ~ctxDone
    /\ ctxDone' = TRUE
    /\ UNCHANGED <<pc, cfg, master, result, retErr, results, resultCh, chCap,
                   chClosed, wg, vtask, stask, requests, metrics, mstage, aborted, produced,
                   lifeVars, other, selVars, valVars, auxVars>>

Next ==
    \/ \E stream \in StreamConfigs : CheckCall(stream)
    \/ MasterReturn
    \/ \E v \in DOMAIN vtask : VariantReturn(v)
    \/ \E v \in DOMAIN vtask : VariantSpawn(v)
    \/ \E t \in BagToSet(stask) : SegmentReturn(t)
    \/ \E t \in BagToSet(stask) : SegmentSend(t)
    \/ CloseResultCh
    \/ Receive
    \/ CheckReturn
    \/ Cancel

Spec == Init /\ [][Next]_vars

(***************************************************************************)
(* Lifecycle: Start, Stop and worker (checker.go:51-58, 73-83, 305-318)    *)
(***************************************************************************)
\* no caller has panicked (a panic ends the process)
Running == \A c \in Callers : lpc[c] # "panic"

\* Start that makes a new c.stopCh for the pool it launches
Start_NewSignal(c) ==
    /\ Running
    /\ lpc[c] = "idle"
    /\ lifeCalls < MaxCalls
    /\ lifeCalls' = lifeCalls + 1
    /\ poolWg' = poolWg + Workers
    /\ workersAlive' = workersAlive + Workers
    /\ stopChClosed' = FALSE
    /\ UNCHANGED <<lpc, ticks, late, stopReturns, stopLeft, checkVars, other, selVars, valVars, auxVars>>

\* Start: wg.Add(1) and go c.worker(), c.workers times
Start(c) ==
    /\ Running
    /\ lpc[c] = "idle"
    /\ lifeCalls < MaxCalls
    /\ lifeCalls' = lifeCalls + 1
    /\ poolWg' = poolWg + Workers
    /\ workersAlive' = workersAlive + Workers
    /\ UNCHANGED <<lpc, stopChClosed, ticks, late, stopReturns, stopLeft, checkVars, other, selVars, valVars, auxVars>>

\* Stop that closes c.stopCh without looking at it first
StopSelect_NoReceive(c) ==
    /\ Running
    /\ lpc[c] = "idle"
    /\ lifeCalls < MaxCalls
    /\ lifeCalls' = lifeCalls + 1
    /\ late' = [late EXCEPT ![c] = stopReturns > 0]
    /\ lpc' = [lpc EXCEPT ![c] = "stop_close"]
    /\ UNCHANGED <<stopReturns, stopLeft>>
    /\ UNCHANGED <<stopChClosed, poolWg, workersAlive, ticks, checkVars, other, selVars, valVars, auxVars>>

\* Stop is called and runs its select: on a closed c.stopCh it returns nil,
\* otherwise it takes the default case
StopSelect(c) ==
    /\ Running
    /\ lpc[c] = "idle"
    /\ lifeCalls < MaxCalls
    /\ lifeCalls' = lifeCalls + 1
    /\ late' = [late EXCEPT ![c] = stopReturns > 0]
    /\ IF stopChClosed
       THEN /\ stopReturns' = stopReturns + 1
            /\ stopLeft' = workersAlive
            /\ UNCHANGED lpc
       ELSE /\ lpc' = [lpc EXCEPT ![c] = "stop_close"]
            /\ UNCHANGED <<stopReturns, stopLeft>>
    /\ UNCHANGED <<stopChClosed, poolWg, workersAlive, ticks, checkVars, other, selVars, valVars, auxVars>>

\* close(c.stopCh) in the default case; closing a closed channel panics
StopClose(c) ==
    /\ Running
    /\ lpc[c] = "stop_close"
    /\ IF stopChClosed
       THEN /\ lpc' = [lpc EXCEPT ![c] = "panic"]
            /\ UNCHANGED stopChClosed
       ELSE /\ lpc' = [lpc EXCEPT ![c] = "stop_wait"]
            /\ stopChClosed' = TRUE
    /\ UNCHANGED <<poolWg, workersAlive, ticks, lifeCalls, late, stopReturns,
                   stopLeft, checkVars, other, selVars, valVars, auxVars>>

\* c.wg.Wait() returns and Stop returns nil
StopWait(c) ==
    /\ Running
    /\ lpc[c] = "stop_wait"
    /\ poolWg = 0
    /\ lpc' = [lpc EXCEPT ![c] = "idle"]
    /\ stopReturns' = stopReturns + 1
    /\ stopLeft' = workersAlive
    /\ UNCHANGED <<stopChClosed, poolWg, workersAlive, ticks, lifeCalls, late,
                   checkVars, other, selVars, valVars, auxVars>>

\* a worker's select takes  case <-c.stopCh  and the worker returns; the
\* deferred c.wg.Done runs
WorkerExit ==
    /\ Running
    /\ workersAlive > 0
    /\ stopChClosed
    /\ workersAlive' = workersAlive - 1
    /\ poolWg' = poolWg - 1
    /\ UNCHANGED <<lpc, stopChClosed, ticks, lifeCalls, late, stopReturns,
                   stopLeft, checkVars, other, selVars, valVars, auxVars>>

\* a worker's select takes  case <-ticker.C  and loops
WorkerTick ==
    /\ Running
    /\ workersAlive > 0
    /\ ticks < MaxTicks
    /\ ticks' = ticks + 1
    /\ UNCHANGED <<lpc, stopChClosed, poolWg, workersAlive, lifeCalls, late,
                   stopReturns, stopLeft, checkVars, other, selVars, valVars, auxVars>>

LifecycleNext ==
    \/ \E c \in Callers : Start(c)
    \/ \E c \in Callers : StopSelect(c)
    \/ \E c \in Callers : StopClose(c)
    \/ \E c \in Callers : StopWait(c)
    \/ WorkerExit
    \/ WorkerTick

LifecycleSpec == Init /\ [][LifecycleNext]_vars

(***************************************************************************)
(* A concurrent Check of another stream on the same StreamChecker.  It     *)
(* shares c.client and c.metrics with the first one; its result, results,  *)
(* wg and resultCh are locals of its own calls (checker.go:85, 170-174).   *)
(* The origin of the other stream serves a master playlist with one        *)
(* variant, the playlist of which cannot be fetched.                       *)
(***************************************************************************)
OtherURL == URL("http", "origin", TRUE, <<"other", "master.m3u8">>)

OtherMaster == MasterPlaylist(<<VariantURI(1)>>)

\* Check is called for the other stream while the first Check is running
OtherCheckCall ==
    /\ pc \in {"master", "collect"}
    /\ other.pc = "idle"
    /\ other' = OtherCheck("master", initResult, other.metrics)
    /\ requests' = requests (+) SetToBag({Request("GetPlaylist", OtherURL, FALSE)})
    /\ UNCHANGED <<pc, cfg, ctxDone, master, result, retErr, results, resultCh,
                   chCap, chClosed, wg, vtask, stask, metrics, mstage, aborted,
                   produced, lifeVars, selVars, valVars, auxVars>>

\* the other Check with its SegmentResults kept in the checker and shared:
\* entering checkVariants resets them
OtherMasterReturn_SharedResults ==
    /\ other.pc = "master"
    /\ \/ LET r == handleError(other.result, TransportError, ErrPlaylistDownload)
          IN /\ other' = OtherCheck("done", r, updateMetrics(other.metrics, r))
             /\ UNCHANGED <<requests, results>>
       \/ /\ other' = OtherCheck("collect", other.result, other.metrics)
          /\ requests' = requests (+) SetToBag({Request("GetPlaylist",
                                 resolveURL(OtherURL, OtherMaster.Variants[1]), FALSE)})
          /\ results' = EmptySegmentResults
    /\ UNCHANGED <<pc, cfg, ctxDone, master, result, retErr, resultCh,
                   chCap, chClosed, wg, vtask, stask, metrics, mstage, aborted,
                   produced, lifeVars, selVars, valVars, auxVars>>

\* GetPlaylist for the other master returns: the fetch failed and the other
\* Check returns, or checkVariants starts and fetches the variant playlist
OtherMasterReturn ==
    /\ other.pc = "master"
    /\ \/ LET r == handleError(other.result, TransportError, ErrPlaylistDownload)
          IN /\ other' = OtherCheck("done", r, updateMetrics(other.metrics, r))
             /\ UNCHANGED requests
       \/ /\ other' = OtherCheck("collect", other.result, other.metrics)
          /\ requests' = requests (+) SetToBag({Request("GetPlaylist",
                                 resolveURL(OtherURL, OtherMaster.Variants[1]), FALSE)})
    /\ UNCHANGED <<pc, cfg, ctxDone, master, result, retErr, results, resultCh,
                   chCap, chClosed, wg, vtask, stask, metrics, mstage, aborted,
                   produced, lifeVars, selVars, valVars, auxVars>>

\* the variant playlist of the other stream cannot be fetched: its
\* checkVariants returns empty SegmentResults and the other Check returns
OtherVariantReturn ==
    /\ other.pc = "collect"
    /\ LET r == finishResult(other.result, OtherMaster, EmptySegmentResults)
       IN other' = OtherCheck("done", r, updateMetrics(other.metrics, r))
    /\ UNCHANGED <<checkVars, lifeVars, selVars, valVars, auxVars>>

ConcurrentNext ==
    \/ Next
    \/ OtherCheckCall
    \/ OtherMasterReturn
    \/ OtherVariantReturn

ConcurrentSpec == Init /\ [][ConcurrentNext]_vars

(***************************************************************************)
(* selectSegments on its own (validator.go:139-184)                        *)
(***************************************************************************)
\* the layouts of a decoded segment slice with up to MaxSlots entries: the
\* segments fill the slice from the front and the unused slots follow them
SelectorSlices ==
    UNION {{[j \in 1..n |-> j <= k] : k \in 0..n} : n \in 0..MaxSlots}

\* the playlists selectSegments is called with: entry j is the j-th
\* segment or an unused slot, Count() is the number of segments
SelectorPlaylists ==
    {MediaPlaylist(Cardinality({j \in DOMAIN live : live[j]}),
                   [j \in DOMAIN live |->
                       IF live[j] THEN MediaSegment(SegmentURI(1, j), j - 1, 10)
                       ELSE NilSegment]) : live \in SelectorSlices}

\* the mode strings selectSegments is called with, an unknown one included
SelectorModes == CheckModes \cup {"unknown"}

\* the values of checks.segment_sample a configuration is loaded with; an
\* unconfigured one is loaded as DefaultSegmentSample
SegmentSamples == 1..MaxSlots

SelectorInit ==
    /\ InitChecker
    /\ selIn \in [playlist : SelectorPlaylists, mode : SelectorModes,
                  sample : SegmentSamples]
    /\ selOut = <<>>
    /\ selPc = "ready"
    /\ selRng = NoSource
    /\ valIn = ValidatorCall("none", ZeroSegmentData, NoPolicy, NilMaster, NilMedia)
    /\ valOut = ""
    /\ valPc = "idle"
    /\ AuxIdle

\* selectSegments(playlist, mode) returns; the random branch constructs its
\* generator when the playlist has a segment
Select ==
    /\ selPc = "ready"
    /\ \E segments \in selectSegments(selIn.playlist, selIn.mode) :
          selOut' = segments
    /\ selRng' = IF selIn.mode = CheckModeRandom /\ selIn.playlist.count > 0
                 THEN SeededSource ELSE NoSource
    /\ selPc' = "done"
    /\ UNCHANGED <<selIn, checkVars, lifeVars, other, valVars, auxVars>>

SelectorNext == Select

SelectorSpec == SelectorInit /\ [][SelectorNext]_vars

(***************************************************************************)
(* The validator on its own (validator.go:23-81)                           *)
(***************************************************************************)
\* the SegmentData ValidateSegment is called with: an empty, a small and a
\* large body, a negative, a zero and a positive #EXTINF duration, every
\* container and track combination
ValidatorSegments ==
    [URI : {SegmentURI(1, 1)}, Duration : {-1, 0, 10}, Size : {0, 512, 2048},
     MediaInfo : [Container : {"", "TS", "MP4"}, HasVideo : BOOLEAN,
                  HasAudio : BOOLEAN]]

\* the *MediaValidation ValidateSegment is called with: nil or a policy
ValidatorPolicies ==
    {NoPolicy}
    \cup [present : {TRUE}, ContainerType : {{}, {"TS"}, {"TS", "MP4"}},
          MinSegmentSize : {0, 1024}, CheckAudio : BOOLEAN, CheckVideo : BOOLEAN]

\* the master playlists ValidateMaster is called with: nil, or up to MaxSlots
\* variants, any of them with a blank URI
ValidatorMasters ==
    {NilMaster}
    \cup UNION {{MasterPlaylist([i \in 1..n |->
                                   IF blank[i] THEN BlankURI ELSE VariantURI(i)]) :
                    blank \in [1..n -> BOOLEAN]} : n \in 0..MaxSlots}

\* the media playlists ValidateMedia is called with: nil, or a slice of up to
\* MaxSlots entries, each nil or a segment with a sequence number of
\* 0..MaxSeqId; Count() is the number of segments
ValidatorMedias ==
    {NilMedia}
    \cup UNION {{MediaPlaylist(Cardinality({j \in 1..n : seq[j] >= 0}),
                               [j \in 1..n |->
                                   IF seq[j] < 0 THEN NilSegment
                                   ELSE MediaSegment(SegmentURI(1, j), seq[j], 10)]) :
                    seq \in [1..n -> -1..MaxSeqId]} : n \in 0..MaxSlots}

ValidatorCalls ==
    {ValidatorCall("ValidateSegment", s, p, NilMaster, NilMedia) :
         s \in ValidatorSegments, p \in ValidatorPolicies}
    \cup {ValidatorCall("ValidateMaster", ZeroSegmentData, NoPolicy, mp, NilMedia) :
              mp \in ValidatorMasters}
    \cup {ValidatorCall("ValidateMedia", ZeroSegmentData, NoPolicy, NilMaster, pl) :
              pl \in ValidatorMedias}

ValidatorInit ==
    /\ InitChecker
    /\ selIn = [playlist |-> NilMedia, mode |-> CheckModeAll,
                sample |-> DefaultSegmentSample]
    /\ selOut = <<>>
    /\ selPc = "idle"
    /\ selRng = NoSource
    /\ valIn \in ValidatorCalls
    /\ valOut = ""
    /\ valPc = "ready"
    /\ AuxIdle

\* ValidateSegment(segment, validation) returns
ValidateSegmentCall ==
    /\ valPc = "ready"
    /\ valIn.op = "ValidateSegment"
    /\ valOut' = ValidateSegment(valIn.segment, valIn.validation)
    /\ valPc' = "done"
    /\ UNCHANGED <<valIn, checkVars, lifeVars, other, selVars, auxVars>>

\* ValidateMaster(playlist) returns
ValidateMasterCall ==
    /\ valPc = "ready"
    /\ valIn.op = "ValidateMaster"
    /\ valOut' = ValidateMaster(valIn.master)
    /\ valPc' = "done"
    /\ UNCHANGED <<valIn, checkVars, lifeVars, other, selVars, auxVars>>

\* ValidateMedia(playlist) returns
ValidateMediaCall ==
    /\ valPc = "ready"
    /\ valIn.op = "ValidateMedia"
    /\ valOut' = ValidateMedia(valIn.media)
    /\ valPc' = "done"
    /\ UNCHANGED <<valIn, checkVars, lifeVars, other, selVars, auxVars>>

ValidatorNext == ValidateSegmentCall \/ ValidateMasterCall \/ ValidateMediaCall

ValidatorSpec == ValidatorInit /\ [][ValidatorNext]_vars

(***************************************************************************)
(* resolveURL as checkVariants uses it (checker.go:181, 209-213, 360-372)  *)
(***************************************************************************)
\* the paths of the URI references: up to MaxRefDirs directory segments,
\* each "..", "." or a name, and the file name
RefPaths(file) ==
    {dirs \o <<file>> :
        dirs \in UNION {[1..n -> {"..", ".", "a"}] : n \in 0..MaxRefDirs}}

\* the URI references of a playlist entry: relative to the playlist,
\* relative to the host, and absolute on another host
ResolverRefs(file) ==
    {URL("", "", FALSE, p) : p \in RefPaths(file)}
    \cup {URL("", "", TRUE, p) : p \in RefPaths(file)}
    \cup {URL("http", "cdn", TRUE, p) : p \in RefPaths(file)}

\* the master playlist URLs of the configured streams
ResolverBases ==
    {MasterURL, URL("https", "origin", TRUE, <<"master.m3u8">>)}

ResolverInit ==
    /\ InitChecker
    /\ SelectorIdle
    /\ ValidatorIdle
    /\ urlIn \in [base : ResolverBases, variant : ResolverRefs("v.m3u8"),
                  segment : ResolverRefs("s.ts")]
    /\ urlOut = [variant |-> BlankURI, segment |-> BlankURI]
    /\ urlPc = "ready"
    /\ ConfigIdle
    /\ PollIdle
    /\ RandomIdle

\* ResolveChain that resolves the segment URI against the master URL
ResolveChain_AgainstMaster ==
    /\ urlPc = "ready"
    /\ LET variantURL == resolveURL(urlIn.base, urlIn.variant)
       IN urlOut' = [variant |-> variantURL,
                     segment |-> resolveURL(urlIn.base, urlIn.segment)]
    /\ urlPc' = "done"
    /\ UNCHANGED <<urlIn, checkVars, lifeVars, other, selVars, valVars, cfgVars, pollVars, rndVars>>

\* variantURL := resolveURL(baseURL, variant.URI), then
\* seg.URI = resolveURL(variantURL, seg.URI)
ResolveChain ==
    /\ urlPc = "ready"
    /\ LET variantURL == resolveURL(urlIn.base, urlIn.variant)
       IN urlOut' = [variant |-> variantURL,
                     segment |-> resolveURL(variantURL, urlIn.segment)]
    /\ urlPc' = "done"
    /\ UNCHANGED <<urlIn, checkVars, lifeVars, other, selVars, valVars, cfgVars, pollVars, rndVars>>

ResolverNext == ResolveChain

ResolverSpec == ResolverInit /\ [][ResolverNext]_vars

(***************************************************************************)
(* LoadConfig and the config validator (config manager)                    *)
(***************************************************************************)
\* Validator.ValidateMediaValidation; "" is a nil error
ValidateMediaValidation(mv) ==
    IF mv.ContainerType = {}
    THEN "media_validation: container_type cannot be empty"
    ELSE IF \E ct \in mv.ContainerType : ct \notin {"TS", "fMP4"}
    THEN "media_validation: invalid container_type"
    ELSE IF mv.MinSegmentSize < 0
    THEN "media_validation: min_segment_size cannot be negative"
    ELSE ""

\* ValidateStream that accepts a timeout equal to the interval
ValidateStream_TimeoutLeInterval(stream) ==
    IF stream.Name = "" THEN "name cannot be empty"
    ELSE IF stream.URL = BlankURI THEN "url cannot be empty"
    ELSE IF stream.CheckMode \notin CheckModes THEN "invalid check_mode"
    ELSE IF stream.Interval <= 0 THEN "interval must be greater than 0"
    ELSE IF stream.Timeout <= 0 THEN "timeout must be greater than 0"
    ELSE IF stream.Timeout > stream.Interval THEN "timeout must be less than interval"
    ELSE IF stream.ValidateContent /\ stream.MediaValidation.present
    THEN ValidateMediaValidation(stream.MediaValidation)
    ELSE ""

\* Validator.ValidateStream; "" is a nil error
ValidateStream(stream) ==
    IF stream.Name = "" THEN "name cannot be empty"
    ELSE IF stream.URL = BlankURI THEN "url cannot be empty"
    ELSE IF stream.CheckMode \notin CheckModes THEN "invalid check_mode"
    ELSE IF stream.Interval <= 0 THEN "interval must be greater than 0"
    ELSE IF stream.Timeout <= 0 THEN "timeout must be greater than 0"
    ELSE IF stream.Timeout >= stream.Interval THEN "timeout must be less than interval"
    ELSE IF stream.ValidateContent /\ stream.MediaValidation.present
    THEN ValidateMediaValidation(stream.MediaValidation)
    ELSE ""

\* the loop of Validate over cfg.Streams: the error of the first stream
\* that fails
RECURSIVE ValidateStreams(_)
ValidateStreams(streams) ==
    IF streams = <<>> THEN ""
    ELSE IF ValidateStream(Head(streams)) # "" THEN ValidateStream(Head(streams))
    ELSE ValidateStreams(Tail(streams))

\* Validator.Validate; "" is a nil error
Validate(config) ==
    IF config.Port <= 0 \/ config.Port > 65535 THEN "invalid server port"
    ELSE IF config.Workers <= 0 THEN "workers must be greater than 0"
    ELSE IF config.RetryAttempts < 0 THEN "retry_attempts cannot be negative"
    ELSE IF Len(config.Streams) = 0 THEN "no streams configured"
    ELSE ValidateStreams(config.Streams)

\* a media policy without container types
NoContainerPolicy ==
    [present |-> TRUE, ContainerType |-> {}, MinSegmentSize |-> 1024,
     CheckAudio |-> TRUE, CheckVideo |-> TRUE]

\* the streams of the configuration files: with and without a name, every
\* combination of the intervals and timeouts 0s, 10s and 30s, content
\* validation without a policy and with one that names no container
ConfigStreams ==
    [Name : {"", "stream"}, URL : {MasterURL}, CheckMode : {CheckModeAll},
     Interval : {0, 10, 30}, Timeout : {0, 10, 30}, ValidateContent : {TRUE},
     MediaValidation : {NoPolicy, NoContainerPolicy}]

\* the configurations LoadConfig unmarshals: the default and an invalid
\* server port, up to MaxStreams streams
Configs ==
    {Config(port, 5, 3, streams) :
        port \in {0, 9090},
        streams \in UNION {[1..n -> ConfigStreams] : n \in 0..MaxStreams}}

ConfigInit ==
    /\ InitChecker
    /\ SelectorIdle
    /\ ValidatorIdle
    /\ ResolverIdle
    /\ cfgIn \in Configs
    /\ cfgOut = ""
    /\ cfgPc = "ready"
    /\ PollIdle
    /\ RandomIdle

\* LoadConfig after ReadInConfig and Unmarshal: the validator runs and its
\* error is wrapped and returned
LoadConfig ==
    /\ cfgPc = "ready"
    /\ cfgOut' = IF Validate(cfgIn) # ""
                 THEN "config validation error: " \o Validate(cfgIn)
                 ELSE ""
    /\ cfgPc' = "done"
    /\ UNCHANGED <<cfgIn, checkVars, lifeVars, other, selVars, valVars, urlVars, pollVars, rndVars>>

ConfigNext == LoadConfig

ConfigSpec == ConfigInit /\ [][ConfigNext]_vars

(***************************************************************************)
(* The polling loops of main (runStreamChecks)                             *)
(***************************************************************************)
\* main has started the checker and one  go runStreamChecks(...)  per stream;
\* no loop has run yet.  The worker pool does not touch the loops and is
\* left out.
PollInit ==
    /\ InitChecker
    /\ SelectorIdle
    /\ ValidatorIdle
    /\ ResolverIdle
    /\ ConfigIdle
    /\ RandomIdle
    /\ pollPc = [s \in PollStreams |-> "start"]
    /\ tickReady = [s \in PollStreams |-> FALSE]
    /\ started = [s \in PollStreams |-> 0]
    /\ inFlight = [s \in PollStreams |-> {}]
    /\ liveCtx = [s \in PollStreams |-> {}]

\* what the polling loops leave alone
PollFrame ==
    UNCHANGED <<lpc, poolWg, workersAlive, ticks, lifeCalls, late, stopReturns,
                stopLeft, checkVars, other, selVars, valVars, urlVars, cfgVars,
                rndVars>>

\* the top of the loop body: context.WithTimeout and the call of
\* checker.Check under it
CallCheck(s) ==
    /\ started' = [started EXCEPT ![s] = @ + 1]
    /\ liveCtx' = [liveCtx EXCEPT ![s] = @ \cup {started[s] + 1}]
    /\ inFlight' = [inFlight EXCEPT ![s] = @ \cup {started[s] + 1}]
    /\ pollPc' = [pollPc EXCEPT ![s] = "inCheck"]

\* runStreamChecks begins: time.NewTicker, then the first iteration
PollStart(s) ==
    /\ pollPc[s] = "start"
    /\ CallCheck(s)
    /\ UNCHANGED <<tickReady, stopChClosed>>
    /\ PollFrame

\* the loop with  defer cancel()  in place of  cancel()
PollCheckReturn_DeferCancel(s) ==
    /\ pollPc[s] = "inCheck"
    /\ inFlight' = [inFlight EXCEPT ![s] = @ \ {started[s]}]
    /\ pollPc' = [pollPc EXCEPT ![s] = "select"]
    /\ UNCHANGED <<liveCtx, tickReady, started, stopChClosed>>
    /\ PollFrame

\* checker.Check returns, cancel() is called, the result is logged and the
\* loop reaches its select
PollCheckReturn(s) ==
    /\ pollPc[s] = "inCheck"
    /\ inFlight' = [inFlight EXCEPT ![s] = @ \ {started[s]}]
    /\ liveCtx' = [liveCtx EXCEPT ![s] = @ \ {started[s]}]
    /\ pollPc' = [pollPc EXCEPT ![s] = "select"]
    /\ UNCHANGED <<tickReady, started, stopChClosed>>
    /\ PollFrame

\* the ticker of a loop fires: ticker.C holds one tick, further ticks are
\* dropped
PollTick(s) ==
    /\ pollPc[s] \in {"inCheck", "select"}
    /\ ~tickReady[s]
    /\ tickReady' = [tickReady EXCEPT ![s] = TRUE]
    /\ UNCHANGED <<pollPc, started, inFlight, liveCtx, stopChClosed>>
    /\ PollFrame

\* the select of the loop: among the ready cases one is taken at random;
\* <-ticker.C  continues with the next iteration,  <-checker.StopCh()
\* returns (ctx is context.Background(), its Done is never ready)
PollSelect(s) ==
    /\ pollPc[s] = "select"
    /\ \/ /\ tickReady[s]
          /\ started[s] < MaxChecks
          /\ tickReady' = [tickReady EXCEPT ![s] = FALSE]
          /\ CallCheck(s)
       \/ /\ stopChClosed
          /\ pollPc' = [pollPc EXCEPT ![s] = "returned"]
          /\ UNCHANGED <<tickReady, started, inFlight, liveCtx>>
    /\ UNCHANGED stopChClosed
    /\ PollFrame

\* main receives the signal and calls streamChecker.Stop(), which closes
\* c.stopCh
MainShutdown ==
    /\ ~stopChClosed
    /\ stopChClosed' = TRUE
    /\ UNCHANGED pollVars
    /\ PollFrame

PollNext ==
    \/ \E s \in PollStreams : PollStart(s)
    \/ \E s \in PollStreams : PollCheckReturn(s)
    \/ \E s \in PollStreams : PollTick(s)
    \/ \E s \in PollStreams : PollSelect(s)
    \/ MainShutdown

PollSpec == PollInit /\ [][PollNext]_vars

(***************************************************************************)
(* The sampling loop of random mode, draw by draw                          *)
(***************************************************************************)
\* the playlists handed to the loop: a segment slice of up to MaxSlots
\* slots, each nil (FALSE) or a segment (TRUE), and a Count() of at least one
\* that the slice holds
RandomPlaylists ==
    UNION {[Segments : [1..n -> BOOLEAN], count : 1..n] : n \in 1..MaxSlots}

\* selectSegments has entered the random case with Count() > 0: the
\* generator is seeded, seen is empty and segments is empty
RandomInit ==
    /\ InitChecker
    /\ SelectorIdle
    /\ ValidatorIdle
    /\ ResolverIdle
    /\ ConfigIdle
    /\ PollIdle
    /\ rndIn \in RandomPlaylists
    /\ rndSeen = {}
    /\ rndOut = <<>>
    /\ rndGen = 0
    /\ rndPc = "loop"

\* count := min(3, int(playlist.Count()))
RandomTarget == min(RandomSample, rndIn.count)

\* one iteration of  for len(segments) < count : r.Intn(Count()) advances
\* the generator and gives idx, which is appended and marked seen when it is
\* neither seen nor nil
Draw(idx) ==
    /\ rndPc = "loop"
    /\ Len(rndOut) < RandomTarget
    /\ idx \in 0..(rndIn.count - 1)
    /\ rndGen' = (rndGen + 1) % 2
    /\ IF idx \notin rndSeen /\ rndIn.Segments[idx + 1]
       THEN /\ rndOut' = Append(rndOut, idx)
            /\ rndSeen' = rndSeen \cup {idx}
       ELSE UNCHANGED <<rndOut, rndSeen>>
    /\ UNCHANGED <<rndIn, rndPc, checkVars, lifeVars, other, selVars, valVars,
                   urlVars, cfgVars, pollVars>>

\* the loop condition fails and selectSegments returns segments
RandomReturn ==
    /\ rndPc = "loop"
    /\ Len(rndOut) >= RandomTarget
    /\ rndPc' = "done"
    /\ UNCHANGED <<rndIn, rndSeen, rndOut, rndGen, checkVars, lifeVars, other,
                   selVars, valVars, urlVars, cfgVars, pollVars>>

RandomNext ==
    \/ \E idx \in 0..(MaxSlots - 1) : Draw(idx)
    \/ RandomReturn

\* the goroutine keeps running and the generator is fair: each index keeps
\* being drawn while the loop runs
RandomFairness ==
    /\ \A idx \in 0..(MaxSlots - 1) : WF_vars(Draw(idx))
    /\ WF_vars(RandomReturn)

RandomSpec == RandomInit /\ [][RandomNext]_vars /\ RandomFairness

\* Every transport call eventually returns and every goroutine that can
\* take a step is eventually scheduled; nothing obliges the context to be
\* cancelled or Check to be called.
Fairness ==
    /\ WF_vars(MasterReturn)
    /\ WF_vars(\E v \in DOMAIN vtask : VariantReturn(v))
    /\ WF_vars(\E v \in DOMAIN vtask : VariantSpawn(v))
    /\ WF_vars(\E t \in BagToSet(stask) : SegmentReturn(t))
    /\ WF_vars(\E t \in BagToSet(stask) : SegmentSend(t))
    /\ WF_vars(CloseResultCh)
    /\ WF_vars(Receive)
    /\ WF_vars(CheckReturn)

FairSpec == Spec /\ Fairness

\* C3: provided every transport call returns, a Check that was called
\* eventually returns: the join of checkVariants completes for every number
\* of variants and segments, with more segments than resultCh buffers and
\* with the context cancelled on the way.
CheckEventuallyReturns == (pc = "master") ~> (pc = "done")

(***************************************************************************)
(* Properties of the CheckResult that Check returns                        *)
(***************************************************************************)
Returned == pc = "done"

MasterStageOK == mstage = "ok"

VariantStagesOK == \A v \in DOMAIN vtask : vtask[v].stage = "ok"

SomeVariantFailed ==
    \E v \in DOMAIN vtask : vtask[v].stage = "failed"

\* C1: a returned CheckResult has Success = TRUE if and only if the master
\* stage succeeded, every variant playlist stage succeeded and
\* Segments.Failed = 0.
C1_SuccessIffAllStagesSucceeded ==
    Returned =>
        (result.Success <=>
            (MasterStageOK /\ VariantStagesOK /\ result.Segments.Failed = 0))

\* C2: in a returned CheckResult, and in the running aggregate of
\* checkVariants at every moment, Failed <= Checked and Checked = len(Details).
C2_FailedLeCheckedEqDetails ==
    /\ results.Failed <= results.Checked
    /\ results.Checked = Len(results.Details)
    /\ Returned =>
          /\ result.Segments.Failed <= result.Segments.Checked
          /\ result.Segments.Checked = Len(result.Segments.Details)

\* a check has returned with some failed and some successful segments
C2_Witness ==
    /\ Returned
    /\ result.Segments.Failed >= 1
    /\ result.Segments.Checked > result.Segments.Failed

\* a check has returned with more SegmentChecks than resultCh buffers, some
\* of them of fetches the context aborted
C3_Witness ==
    /\ Returned
    /\ result.Segments.Checked > chCap
    /\ ctxDone
    /\ aborted # EmptyBag

\* the URLs the variant goroutines 1..i selected, as a bag
RECURSIVE SelectedURLs(_, _)
SelectedURLs(tasks, i) ==
    IF i = 0 THEN EmptyBag ELSE tasks[i].selected (+) SelectedURLs(tasks, i - 1)

\* number of the SegmentChecks of details that are for url
ChecksFor(details, url) ==
    Cardinality({k \in 1..Len(details) : details[k].URL = url})

\* number of GetSegment calls the transport received for url
FetchesOf(url) ==
    CopiesIn(Request("GetSegment", url, cfg.ValidateContent), requests)

\* C4: in a returned CheckResult every selected segment of a variant whose
\* playlist validated has exactly one SegmentCheck in Segments.Details, and
\* Segments.Checked is the number of selected segments.
C4_OneCheckPerSelectedSegment ==
    Returned =>
        LET sel == SelectedURLs(vtask, Len(vtask))
            details == result.Segments.Details
        IN /\ \A u \in BagToSet(sel) : ChecksFor(details, u) = CopiesIn(u, sel)
           /\ \A k \in 1..Len(details) : BagIn(details[k].URL, sel)
           /\ result.Segments.Checked = BagCardinality(sel)

\* a check of two variants has returned with a SegmentCheck for each
C4_Witness ==
    /\ Returned
    /\ \E v, w \in DOMAIN vtask :
          /\ v # w
          /\ vtask[v].selected # EmptyBag
          /\ vtask[w].selected # EmptyBag
    /\ result.Segments.Checked >= 2

\* C5: the error Check returns is non-nil if and only if the returned
\* CheckResult has Success = FALSE.
C5_ErrorIffNotSuccess ==
    Returned => ((retErr # "") <=> ~result.Success)

\* a check has returned an error because segments failed
C5_Witness ==
    /\ Returned
    /\ mstage = "ok"
    /\ ~result.Success
    /\ retErr # ""

\* the only call the transport received is the fetch of the master playlist
OnlyMasterFetched ==
    requests = SetToBag({Request("GetPlaylist", cfg.URL, FALSE)})

\* C6: when the fetch of the master playlist fails, Check returns
\* Success = FALSE with Error.Type = PlaylistDownload and Segments.Checked = 0
\* and has issued no variant playlist fetch and no segment fetch.
C6_MasterFetchFailure ==
    (Returned /\ mstage = "fetch") =>
        /\ ~result.Success
        /\ result.Error.Type = ErrPlaylistDownload
        /\ result.Segments.Checked = 0
        /\ OnlyMasterFetched
        /\ vtask = <<>>
        /\ stask = EmptyBag

\* a check has returned after its master playlist fetch failed
C6_Witness ==
    /\ Returned
    /\ mstage = "fetch"
    /\ retErr = TransportError

\* C7: when the master playlist was fetched but does not parse as a master
\* playlist or fails ValidateMaster, Check returns Success = FALSE with
\* Error.Type = PlaylistParse and has fetched no variant and no segment.
C7_MasterParseFailure ==
    (Returned /\ mstage \in {"parse", "validate"}) =>
        /\ ~result.Success
        /\ result.Error.Type = ErrPlaylistParse
        /\ OnlyMasterFetched
        /\ vtask = <<>>
        /\ stask = EmptyBag

\* a check has returned after ValidateMaster rejected the fetched playlist
C7_Witness ==
    /\ Returned
    /\ mstage = "validate"
    /\ result.Error.Message # ""

\* C8: when a variant has failed, every selected segment of every other
\* variant whose playlist validated has still been fetched and has a
\* SegmentCheck in the returned result.
C8_VariantFailureContained ==
    (Returned /\ SomeVariantFailed) =>
        \A v \in DOMAIN vtask :
            vtask[v].stage = "ok" =>
                \A u \in BagToSet(vtask[v].selected) :
                    /\ FetchesOf(u) >= CopiesIn(u, vtask[v].selected)
                    /\ ChecksFor(result.Segments.Details, u)
                           >= CopiesIn(u, vtask[v].selected)

\* a check has returned with one variant failed and another one checked
C8_Witness ==
    /\ Returned
    /\ SomeVariantFailed
    /\ \E v \in DOMAIN vtask :
          /\ vtask[v].stage = "ok"
          /\ vtask[v].selected # EmptyBag
    /\ result.Segments.Checked >= 1

\* number of the SegmentChecks of details that report a failed download of url
DownloadFailuresOf(details, url) ==
    Cardinality({k \in 1..Len(details) :
                    /\ details[k].URL = url
                    /\ ~details[k].Success
                    /\ details[k].Error.Type = ErrSegmentDownload})

\* C9: every segment fetch the context aborted has a SegmentCheck with
\* Success = FALSE and Error.Type = SegmentDownload in the returned result
\* and is counted in Checked and Failed.
C9_CancelledFetchIsCounted ==
    Returned =>
        /\ \A u \in BagToSet(aborted) :
              DownloadFailuresOf(result.Segments.Details, u) >= CopiesIn(u, aborted)
        /\ result.Segments.Failed >= BagCardinality(aborted)
        /\ result.Segments.Checked >= BagCardinality(aborted)

\* a check has returned after the context aborted a segment fetch while
\* another segment had been fetched successfully
C9_Witness ==
    /\ Returned
    /\ aborted # EmptyBag
    /\ \E k \in 1..Len(result.Segments.Details) : result.Segments.Details[k].Success

\* C10: whatever the content validation policy, a segment that is fetched
\* with size 0 or has a duration that is not strictly positive gets a
\* SegmentCheck with Success = FALSE: no response of that kind to a fetch
\* in flight makes checkSegment report success.
C10_BasicValidationAlways ==
    \A t \in BagToSet(stask) :
        t.pc = "fetch" =>
            \A resp \in SegmentResponses(ctxDone, t.seg.URI, cfg.ValidateContent) :
                (resp.err = "" /\ (resp.Size = 0 \/ t.seg.Duration <= 0)) =>
                    ~checkSegment(t.seg, cfg, resp).Success

(***************************************************************************)
(* Metrics, the top-level error and segment validation                     *)
(***************************************************************************)
\* C11: every Check reports its result to the metrics sink exactly once:
\* updateMetrics has not run before Check returns and has run once when it
\* has returned, on the master failure, segment failure and success paths.
C11_MetricsUpdatedOnce ==
    /\ Returned => metrics.updates = 1
    /\ ~Returned => metrics.updates = 0

\* a check has returned on the segment failure path and has reported once
C11_Witness ==
    /\ Returned
    /\ mstage = "ok"
    /\ result.Segments.Failed > 0
    /\ metrics.updates = 1

\* C12: when segments failed, the returned result carries an error of
\* type SegmentValidate whose message is "<failed> of <checked> segments
\* failed validation" with the Failed and Checked of the same result.
C12_FailureMessageCounts ==
    (Returned /\ mstage = "ok" /\ result.Segments.Failed > 0) =>
        /\ result.Error.Type = ErrSegmentValidate
        /\ result.Error.Message =
              ToString(result.Segments.Failed) \o " of "
                  \o ToString(result.Segments.Checked)
                  \o " segments failed validation"

\* the SegmentData checkSegment hands to ValidateSegment
SegmentData(segment, resp) ==
    [URI |-> segment.URI, Duration |-> segment.Duration,
     Size |-> resp.Size, MediaInfo |-> resp.MediaInfo]

\* number of the SegmentChecks of details that report a rejected segment
ValidationFailures(details) ==
    Cardinality({k \in 1..Len(details) :
                    /\ ~details[k].Success
                    /\ details[k].Error.Type = ErrSegmentValidate})

\* C13: with content validation enabled, a fetched segment that
\* ValidateSegment rejects gets a SegmentCheck with Success = FALSE and
\* Error.Type = SegmentValidate; every such SegmentCheck of a returned
\* result is counted in Segments.Failed and makes the result unsuccessful.
C13_RejectedSegmentFails ==
    /\ \A t \in BagToSet(stask) :
          (t.pc = "fetch" /\ cfg.ValidateContent) =>
              \A resp \in SegmentResponses(ctxDone, t.seg.URI, cfg.ValidateContent) :
                  (/\ resp.err = ""
                   /\ ValidateSegment(SegmentData(t.seg, resp), cfg.MediaValidation) # "") =>
                      /\ ~checkSegment(t.seg, cfg, resp).Success
                      /\ checkSegment(t.seg, cfg, resp).Error.Type = ErrSegmentValidate
                      /\ checkSegment(t.seg, cfg, resp).URL = t.seg.URI
    /\ Returned =>
          /\ result.Segments.Failed
                = Cardinality({k \in 1..Len(result.Segments.Details) :
                                  ~result.Segments.Details[k].Success})
          /\ ValidationFailures(result.Segments.Details) > 0 =>
                /\ ~result.Success
                /\ result.Segments.Failed >= ValidationFailures(result.Segments.Details)

\* a check with the container allow-list {"TS"} has returned with one
\* segment rejected for its container and nothing else failed
C13_Witness ==
    /\ Returned
    /\ cfg.ValidateContent
    /\ cfg.MediaValidation.present
    /\ result.Segments.Failed = 1
    /\ ~result.Success
    /\ \E k \in 1..Len(result.Segments.Details) :
          result.Segments.Details[k].Error =
              [Type |-> ErrSegmentValidate,
               Message |-> "container_type: invalid container type"]

(***************************************************************************)
(* Properties of Start and Stop                                            *)
(***************************************************************************)
\* C14: when a call of Stop returns, every worker that an earlier Start
\* launched has returned: no worker was alive when the latest Stop returned.
C14_StopDrainsPool == stopLeft = 0

\* C15: Stop can be called again: once a Stop has returned the signal is
\* closed, and a Stop that begins after a Stop has returned neither closes
\* the signal again nor panics.
C15_StopAgainIsSafe ==
    /\ stopReturns > 0 => stopChClosed
    /\ \A c \in Callers : late[c] => lpc[c] \notin {"stop_close", "stop_wait", "panic"}

\* a caller has returned from a Stop that began after an earlier Stop had
\* returned
C15_Witness ==
    /\ stopReturns >= 2
    /\ \E c \in Callers : late[c] /\ lpc[c] = "idle"
    /\ Running

(***************************************************************************)
(* Properties of the aggregation under concurrency                         *)
(***************************************************************************)
\* number of unsuccessful SegmentChecks in a bag of them
FailuresIn(checks) ==
    LET failed == {c \in BagToSet(checks) : ~c.Success}
        RECURSIVE Sum(_)
        Sum(S) == IF S = {} THEN 0
                  ELSE LET c == CHOOSE x \in S : TRUE
                       IN CopiesIn(c, checks) + Sum(S \ {c})
    IN Sum(failed)

\* C16: the aggregate is a function of the multiset of per-segment
\* outcomes alone: whatever the order in which the tasks completed and
\* their SegmentChecks were received, the returned Details are that
\* multiset, Checked is its size and Failed its number of failures.
C16_AggregateOrderIndependent ==
    Returned =>
        /\ SeqToBag(result.Segments.Details) = produced
        /\ result.Segments.Checked = BagCardinality(produced)
        /\ result.Segments.Failed = FailuresIn(produced)

\* a check has returned whose Details list a failed segment of the second
\* variant before a successful segment of the first one
C16_Witness ==
    /\ Returned
    /\ Len(vtask) = 2
    /\ Len(result.Segments.Details) = 2
    /\ result.Segments.Details[1].URL \in BagToSet(vtask[2].selected)
    /\ ~result.Segments.Details[1].Success
    /\ result.Segments.Details[2].URL \in BagToSet(vtask[1].selected)
    /\ result.Segments.Details[2].Success

\* C17: when checkVariants has returned, Total is the number of segments
\* the selector returned, summed over the variants whose playlist
\* validated, under every interleaving of the variant goroutines.
C17_TotalIsSumOfSelected ==
    (Returned /\ mstage = "ok") =>
        result.Segments.Total = BagCardinality(SelectedURLs(vtask, Len(vtask)))

\* the returned result of the first Check is the one its own transport
\* responses determine: the master failure they caused, or the aggregate of
\* the SegmentChecks its own segment goroutines produced
ResultAsAlone ==
    /\ metrics = updateMetrics(EmptyMetrics, result)
    /\ CopiesIn(Request("GetPlaylist", cfg.URL, FALSE), requests) = 1
    /\ IF mstage = "ok"
       THEN /\ SeqToBag(result.Segments.Details) = produced
            /\ result.Segments.Checked = BagCardinality(produced)
            /\ result.Segments.Failed = FailuresIn(produced)
            /\ result.Success = (FailuresIn(produced) = 0)
            /\ result.StreamStatus.VariantsCount = Len(master.Variants)
            /\ BagCardinality(produced) = BagCardinality(SelectedURLs(vtask, Len(vtask)))
       ELSE /\ ~result.Success
            /\ result.Error.Type =
                  (IF mstage = "fetch" THEN ErrPlaylistDownload ELSE ErrPlaylistParse)
            /\ result.Segments = EmptySegmentResults
            /\ produced = EmptyBag

\* the returned result of the Check of the other stream is the one its own
\* transport responses determine
OtherResultAsAlone ==
    /\ other.result \in
          {handleError(initResult, TransportError, ErrPlaylistDownload),
           finishResult(initResult, OtherMaster, EmptySegmentResults)}
    /\ other.metrics = updateMetrics(EmptyMetrics, other.result)

C19_NoBodyReadWithoutValidation ==
    ~cfg.ValidateContent =>
        \A req \in BagToSet(requests) :
            req.op = "GetSegment" =>
                /\ ~req.validate
                /\ RequestMethod(req) = "HEAD"

\* a check without content validation has returned after fetching segments
C19_Witness ==
    /\ Returned
    /\ ~cfg.ValidateContent
    /\ result.Segments.Checked >= 2
    /\ \E req \in BagToSet(requests) : req.op = "GetSegment"

\* indices of the non-nil entries of a segment slice
LiveIndices(segs) == {i \in 1..Len(segs) : ~segs[i].isNil}

\* C20: in mode "all" selectSegments returns every non-nil segment of the
\* playlist exactly once and in playlist order: the result lists the
\* entries at all non-nil indices in increasing order.
C20_AllModeSelectsEveryLiveSegment ==
    (selPc = "done" /\ selIn.mode = CheckModeAll) =>
        LET segs == selIn.playlist.Segments
            live == LiveIndices(segs)
        IN /\ Len(selOut) = Cardinality(live)
           /\ \E idx \in [1..Len(selOut) -> live] :
                 /\ \A j, k \in 1..Len(selOut) : j < k => idx[j] < idx[k]
                 /\ \A k \in 1..Len(selOut) : selOut[k] = segs[idx[k]]

\* mode "all" has returned the two segments of a slice of three entries
C20_Witness ==
    /\ selPc = "done"
    /\ selIn.mode = CheckModeAll
    /\ Len(selIn.playlist.Segments) = 3
    /\ selIn.playlist.Segments[3].isNil
    /\ Len(selOut) = 2

\* C21: in mode "first_last" selectSegments returns the first and the last
\* segment, in that order and as two different segments, for a playlist of
\* two or more segments, and the single segment once for a playlist of one
\* segment.
C21_FirstLastSelection ==
    (selPc = "done" /\ selIn.mode = CheckModeFirstLast) =>
        LET segs == selIn.playlist.Segments
            n == selIn.playlist.count
        IN /\ n >= 2 => /\ selOut = <<segs[1], segs[n]>>
                        /\ selOut[1] # selOut[2]
           /\ n = 1 => selOut = <<segs[1]>>

\* mode "first_last" has returned for a playlist of one segment and for a
\* playlist of three
C21_Witness ==
    /\ selPc = "done"
    /\ selIn.mode = CheckModeFirstLast
    /\ \/ selIn.playlist.count = 1 /\ Len(selOut) = 1
       \/ selIn.playlist.count = 3 /\ Len(selOut) = 2

\* C22: in mode "random" selectSegments returns
\* min(checks.segment_sample, Count()) segments, taken at pairwise distinct
\* indices of the playlist, for every segment count from zero up.
C22_RandomSampleSize ==
    (selPc = "done" /\ selIn.mode = CheckModeRandom) =>
        LET segs == selIn.playlist.Segments
            n == selIn.playlist.count
        IN /\ Len(selOut) = min(selIn.sample, n)
           /\ \E idx \in [1..Len(selOut) -> 1..n] :
                 /\ \A j, k \in 1..Len(selOut) : j # k => idx[j] # idx[k]
                 /\ \A k \in 1..Len(selOut) : selOut[k] = segs[idx[k]]

\* C23: whenever the "random" mode draws indices, the generator it draws
\* them from is the cryptographically strong source, never a seeded
\* pseudo-random generator.
C23_RandomSourceIsCryptographic ==
    (selPc = "done" /\ selIn.mode = CheckModeRandom /\ selIn.playlist.count > 0) =>
        selRng = CryptoSource

\* the four checks of the media policy p on the segment s, in the order
\* container, size, video, audio: TRUE where the check passes
PolicyChecks(s, p) ==
    <<s.MediaInfo.Container \in p.ContainerType,
      s.Size >= p.MinSegmentSize,
      p.CheckVideo => s.MediaInfo.HasVideo,
      p.CheckAudio => s.MediaInfo.HasAudio>>

\* the errors of the four checks, in the same order
PolicyErrors ==
    <<"container_type: invalid container type",
      "segment_size: segment size less than minimum",
      "no_video: no video track found",
      "no_audio: no audio track found">>

\* C24: with a media policy and a segment that passes basic validation,
\* ValidateSegment returns nil exactly when the container is allowed, the
\* size reaches the minimum and every required track is present; otherwise
\* it returns the error of the first failing check in the order container,
\* size, video, audio, and a track error only when the policy requires
\* that track.
C24_PolicyChecksInOrder ==
    (/\ valPc = "done"
     /\ valIn.op = "ValidateSegment"
     /\ valIn.validation.present
     /\ valIn.segment.Size # 0
     /\ valIn.segment.Duration > 0) =>
        LET ok == PolicyChecks(valIn.segment, valIn.validation)
        IN /\ valOut = "" <=> \A i \in 1..4 : ok[i]
           /\ \A i \in 1..4 :
                 (~ok[i] /\ \A j \in 1..(i - 1) : ok[j]) => valOut = PolicyErrors[i]
           /\ valOut = PolicyErrors[3] => valIn.validation.CheckVideo
           /\ valOut = PolicyErrors[4] => valIn.validation.CheckAudio

\* ValidateSegment has returned the container error for a segment that is
\* also too small and lacks a required track
C24_Witness ==
    /\ valPc = "done"
    /\ valIn.op = "ValidateSegment"
    /\ valIn.validation.present
    /\ valIn.segment.Size # 0
    /\ valIn.segment.Duration > 0
    /\ LET ok == PolicyChecks(valIn.segment, valIn.validation)
       IN ~ok[1] /\ ~ok[2] /\ ~ok[3]
    /\ valOut = PolicyErrors[1]

\* C25: without a media policy ValidateSegment returns nil exactly when the
\* segment size is non-zero and the duration is strictly positive, whatever
\* the container and the tracks of the segment.
C25_NoPolicyBasicOnly ==
    (valPc = "done" /\ valIn.op = "ValidateSegment" /\ ~valIn.validation.present) =>
        (valOut = "" <=> (valIn.segment.Size # 0 /\ valIn.segment.Duration > 0))

\* ValidateSegment without a policy has accepted a small segment of unknown
\* container without tracks, and has rejected one of zero duration
C25_Witness ==
    /\ valPc = "done"
    /\ valIn.op = "ValidateSegment"
    /\ ~valIn.validation.present
    /\ valIn.segment.MediaInfo = ZeroMediaInfo
    /\ valIn.segment.Size = 512
    /\ \/ valIn.segment.Duration = 10 /\ valOut = ""
       \/ valIn.segment.Duration = 0 /\ valOut # ""

\* C26: ValidateMaster returns an error when the master playlist is absent,
\* when it has no variants and when some variant has a blank URI, and nil
\* for every other master playlist.
C26_ValidateMaster ==
    (valPc = "done" /\ valIn.op = "ValidateMaster") =>
        (valOut # "" <=>
            \/ valIn.master.isNil
            \/ Len(valIn.master.Variants) = 0
            \/ \E i \in 1..Len(valIn.master.Variants) :
                  valIn.master.Variants[i] = BlankURI)

\* ValidateMaster has rejected the absent playlist, or a playlist of three
\* variants of which only the last has a blank URI
C26_Witness ==
    /\ valPc = "done"
    /\ valIn.op = "ValidateMaster"
    /\ valOut # ""
    /\ \/ valIn.master.isNil
       \/ /\ Len(valIn.master.Variants) = 3
          /\ valIn.master.Variants[1] # BlankURI
          /\ valIn.master.Variants[2] # BlankURI
          /\ valIn.master.Variants[3] = BlankURI

\* C27: on a present playlist with at least one segment ValidateMedia fails
\* exactly when some segment has a lower sequence number than the segment
\* before it, nil entries left out: equal neighbours pass and a nil entry
\* between two segments does not change which two are compared.
C27_SequenceNonDecreasing ==
    (/\ valPc = "done"
     /\ valIn.op = "ValidateMedia"
     /\ ~valIn.media.isNil
     /\ valIn.media.count >= 1) =>
        LET segs == valIn.media.Segments
            live == LiveIndices(segs)
        IN valOut # "" <=>
              \E j, k \in live :
                 /\ j < k
                 /\ \A i \in live : ~(j < i /\ i < k)
                 /\ segs[k].SeqId < segs[j].SeqId

\* ValidateMedia has accepted two equal sequence numbers, or has rejected a
\* drop of the sequence number across a nil entry
C27_Witness ==
    /\ valPc = "done"
    /\ valIn.op = "ValidateMedia"
    /\ Len(valIn.media.Segments) = 3
    /\ LET segs == valIn.media.Segments
       IN \/ /\ ~segs[1].isNil /\ ~segs[2].isNil /\ segs[3].isNil
             /\ segs[1].SeqId = 1 /\ segs[2].SeqId = 1
             /\ valOut = ""
          \/ /\ ~segs[1].isNil /\ segs[2].isNil /\ ~segs[3].isNil
             /\ segs[1].SeqId = 2 /\ segs[3].SeqId = 1
             /\ valOut # ""

\* C28: a Check increments the error counter of the metrics sink exactly
\* when its result carries an error, once, under the key that is the type of
\* that error, and leaves every other key alone; the stream-up value it
\* records is the Success flag of the result.  Nothing is counted before the
\* check returns.
C28_ErrorCounterMatchesResult ==
    /\ ~Returned => \A t \in ErrorTypes : metrics.errorsTotal[t] = 0
    /\ Returned =>
          /\ \A t \in ErrorTypes :
                metrics.errorsTotal[t] =
                    IF result.Error # NoError /\ result.Error.Type = t THEN 1 ELSE 0
          /\ result.Error # NoError => result.Error.Type \in ErrorTypes
          /\ metrics.streamUp = result.Success

\* a check has returned with a playlist parse error and has counted it, or
\* has returned without an error and has counted none
C28_Witness ==
    /\ Returned
    /\ \/ /\ result.Error # NoError
          /\ result.Error.Type = ErrPlaylistParse
          /\ metrics.errorsTotal[ErrPlaylistParse] = 1
          /\ ~metrics.streamUp
       \/ /\ result.Error = NoError
          /\ result.Segments.Checked > 0
          /\ metrics.streamUp

\* number of the SegmentChecks of details with the given outcome
ChecksWith(details, success) ==
    Cardinality({k \in 1..Len(details) : details[k].Success = success})

\* C29: the segments-checked counters count segments: when a Check has
\* returned, the counter of status success has grown by the number of
\* SegmentChecks of the result that succeeded and the counter of status
\* failed by the number that failed.
C29_SegmentCountersCountSegments ==
    Returned =>
        /\ metrics.segmentsChecked.success = ChecksWith(result.Segments.Details, TRUE)
        /\ metrics.segmentsChecked.failed = ChecksWith(result.Segments.Details, FALSE)

\* the calls the transport has received for variant playlists
VariantFetches ==
    {req \in BagToSet(requests) : req.op = "GetPlaylist" /\ req.url # cfg.URL}

\* the calls the transport has received for segments
SegmentFetches == {req \in BagToSet(requests) : req.op = "GetSegment"}

\* C30: a Check goes through fetching and validating the master playlist,
\* checking the variants, aggregating and returning, in that order: a
\* variant playlist is fetched only after the master playlist was fetched
\* and validated, a segment only after the playlist of a variant that
\* selected it was fetched and validated, and the result is final and the
\* metrics are emitted only when every variant and segment goroutine has
\* finished and the result channel is drained; the only other way to return
\* is the failure of the master stage, with nothing but the master fetched.
C30_StageOrder ==
    /\ pc = "idle" => requests = EmptyBag
    /\ pc = "master" => OnlyMasterFetched /\ vtask = <<>> /\ stask = EmptyBag
    /\ pc = "collect" => mstage = "ok"
    /\ VariantFetches # {} => mstage = "ok" /\ ~master.isNil
    /\ \A req \in SegmentFetches :
          \E v \in DOMAIN vtask :
             /\ vtask[v].stage = "ok"
             /\ vtask[v].pc = "done"
             /\ BagIn(req.url, vtask[v].selected)
    /\ metrics.updates > 0 => Returned
    /\ Returned =>
          \/ /\ mstage = "ok"
             /\ \A v \in DOMAIN vtask : vtask[v].pc = "done"
             /\ stask = EmptyBag
             /\ wg = 0
             /\ chClosed
             /\ resultCh = <<>>
          \/ /\ mstage \in {"fetch", "parse", "validate"}
             /\ OnlyMasterFetched
             /\ vtask = <<>>
             /\ stask = EmptyBag

\* a check of two variants has returned after one variant failed and the
\* segments of the other were fetched
C30_Witness ==
    /\ Returned
    /\ mstage = "ok"
    /\ Len(vtask) = 2
    /\ SomeVariantFailed
    /\ SegmentFetches # {}
    /\ result.Segments.Checked >= 2

\* C31: within one Check the transport is asked at most once for the master
\* playlist, at most once for the playlist of each variant and at most once
\* for each selected segment, failed requests included.
C31_NoRetry ==
    /\ CopiesIn(Request("GetPlaylist", cfg.URL, FALSE), requests) <= 1
    /\ \A v \in DOMAIN vtask :
          CopiesIn(Request("GetPlaylist", vtask[v].url, FALSE), requests)
              <= Cardinality({w \in DOMAIN vtask : vtask[w].url = vtask[v].url})
    /\ \A req \in BagToSet(requests) :
          \/ req.op = "GetPlaylist" /\ req.url = cfg.URL
          \/ req.op = "GetPlaylist" /\ \E v \in DOMAIN vtask : vtask[v].url = req.url
          \/ /\ req.op = "GetSegment"
             /\ CopiesIn(req, requests) <= CopiesIn(req.url, SelectedURLs(vtask, Len(vtask)))

\* a check has returned after the fetch of one variant playlist and the
\* fetch of a segment of another variant failed
C31_Witness ==
    /\ Returned
    /\ SomeVariantFailed
    /\ \E k \in 1..Len(result.Segments.Details) :
          /\ ~result.Segments.Details[k].Success
          /\ result.Segments.Details[k].Error.Type = ErrSegmentDownload

\* number of ".." segments a path starts with
RECURSIVE LeadingUps(_)
LeadingUps(path) ==
    IF path # <<>> /\ Head(path) = ".." THEN 1 + LeadingUps(Tail(path)) ELSE 0

\* the path has no "." and no ".." segment
Plain(path) == \A i \in 1..Len(path) : path[i] \notin {".", ".."}

\* out is the relative reference ref, a run of "../" followed by a plain
\* path, taken from the directory of the playlist at parent: each "../"
\* drops one directory, never going above the root
RelativeTo(parent, ref, out) ==
    LET k == LeadingUps(ref.path)
        rest == SubSeq(ref.path, k + 1, Len(ref.path))
        dir == DirOf(parent.path)
        keep == Len(dir) - min(k, Len(dir))
    IN (ref.scheme = "" /\ ref.host = "" /\ ~ref.rooted /\ Plain(rest)) =>
          out = URL(parent.scheme, parent.host, TRUE, SubSeq(dir, 1, keep) \o rest)

\* out is the absolute reference ref itself
AbsoluteUnchanged(ref, out) == ref.scheme # "" => out = ref

\* out is the absolute reference ref with the dot segments of its path
\* removed: the same URL when the path has none
AbsoluteNormalised(ref, out) ==
    ref.scheme # "" =>
        /\ out.scheme = ref.scheme
        /\ out.host = ref.host
        /\ Plain(out.path)
        /\ Plain(ref.path) => out = ref

C33_TimeoutBelowInterval ==
    cfgPc = "done" =>
        /\ cfgOut = "" =>
              \A i \in 1..Len(cfgIn.Streams) :
                 /\ 0 < cfgIn.Streams[i].Timeout
                 /\ cfgIn.Streams[i].Timeout < cfgIn.Streams[i].Interval
        /\ (\E i \in 1..Len(cfgIn.Streams) :
               cfgIn.Streams[i].Timeout >= cfgIn.Streams[i].Interval) => cfgOut # ""

\* LoadConfig has rejected a configuration whose first stream is valid and
\* whose second stream has a timeout equal to its interval
C33_Witness ==
    /\ cfgPc = "done"
    /\ Len(cfgIn.Streams) = 2
    /\ ValidateStream(cfgIn.Streams[1]) = ""
    /\    /\ cfgIn.Streams[2].Timeout = 10
          /\ cfgIn.Streams[2].Interval = 10
          /\ cfgIn.Streams[2].Name # ""
          /\ cfgIn.Port = 9090
          /\ cfgOut # ""

\* C35: the result channel is closed only after every variant goroutine
\* and every segment goroutine has finished, and no goroutine sends on the
\* closed channel: the WaitGroup counts every goroutine that has not
\* finished, a segment goroutine being counted before the variant goroutine
\* that started it is done.
C35_CloseAfterAllTasks ==
    /\ wg = Cardinality({v \in DOMAIN vtask : vtask[v].pc # "done"})
            + BagCardinality(stask)
    /\ chClosed => /\ \A v \in DOMAIN vtask : vtask[v].pc = "done"
                   /\ stask = EmptyBag
    /\ pc # "panic"

\* every variant goroutine is done while two segment goroutines still run
\* and a third has sent its result, and the channel is open
C35_Witness ==
    /\ vtask # <<>>
    /\ \A v \in DOMAIN vtask : vtask[v].pc = "done"
    /\ BagCardinality(stask) >= 2
    /\ wg = BagCardinality(stask)
    /\ resultCh # <<>>
    /\ ~chClosed

\* C36: under every interleaving of concurrent calls of Stop the shutdown
\* signal is closed exactly once: no call closes a closed signal and panics.
C36_ClosedExactlyOnce ==
    ~ \E c \in Callers : lpc[c] = "panic"

C40_ResultErrorMatchesSuccess ==
    Returned =>
        /\ (result.Error = NoError) <=> result.Success
        /\ result.Error # NoError =>
              result.Error.Type \in
                  {ErrPlaylistDownload, ErrPlaylistParse, ErrSegmentValidate}

\* a check has returned a result that is not successful and carries a
\* SegmentValidate error, some of its segments having failed
C40_Witness ==
    /\ Returned
    /\ ~result.Success
    /\ result.Error # NoError
    /\ result.Error.Type = ErrSegmentValidate
    /\ result.Segments.Failed > 0

(***************************************************************************)
(* Properties of the polling loops                                         *)
(***************************************************************************)
\* C34: the polling loop of a stream never has two Check calls in flight,
\* and the only timeout context of the loop that is not cancelled is the one
\* of the call in flight: the context of a Check is cancelled before the
\* next Check starts.
C34_ChecksSerialised ==
    \A s \in PollStreams :
        /\ Cardinality(inFlight[s]) <= 1
        /\ inFlight[s] \subseteq {started[s]}
        /\ liveCtx[s] = inFlight[s]

\* the first loop runs its second Check while the second loop runs its
\* first
C34_Witness ==
    /\ started[1] = 2
    /\ inFlight[1] = {2}
    /\ liveCtx[1] = {2}
    /\ inFlight[2] = {1}

\* C39: once the shutdown signal is closed, a polling loop that waits in
\* its select does not start another Check, also when a tick is ready.
C39_NoCheckAfterShutdown ==
    [][\A s \in PollStreams :
          (stopChClosed /\ pollPc[s] = "select") => pollPc'[s] # "inCheck"]_vars

====
